---- MODULE Spec2Model ----
(***************************************************************************)
(* A state-machine model of apigen: the model registry (RegisterModel),    *)
(* route synthesis (GenerateAPI / generateModelAPI), the generated gin     *)
(* handlers running against the GORM persistence layer, and the Swagger    *)
(* schema generator.                                                       *)
(*                                                                         *)
(* Go strings are sequences of one-character strings, so that toSnakeCase, *)
(* pluralize, strings.Split, strings.HasSuffix and fmt.Sprintf are         *)
(* computed character by character, as the code computes them.             *)
(***************************************************************************)
EXTENDS Integers, Sequences, FiniteSets, TLC

VARIABLES
    Models,          \* APIGenerator.Models: map[string]ModelInfo
    RegisteredPaths, \* APIGenerator.RegisteredPaths: map[string]bool
    Router,          \* the gin engine: (method, path) -> handlers bound, in bind order
    db,              \* the GORM database: table (struct type) -> set of rows
    paths,           \* SwaggerGenerator.paths
    last,            \* outcome of the most recent call or request
    nRegs,           \* number of RegisterModel calls made
    nPasses,         \* number of GenerateAPI calls made
    nReqs,           \* number of requests served
    nBuilds,         \* number of BuildPathsForAllModels calls made
    inflight         \* requests between their lookup and their second persistence call

vars == <<Models, RegisteredPaths, Router, db, paths, last, nRegs, nPasses, nReqs, nBuilds,
          inflight>>

(***************************************************************************)
(* Bounds of the model.                                                    *)
(***************************************************************************)
MaxRegs   == 2    \* RegisterModel calls
MaxPasses == 2    \* GenerateAPI calls
MaxReqs   == 1    \* requests served
MaxBuilds == 2    \* BuildPathsForAllModels calls

(***************************************************************************)
(* Characters and string helpers (package strings / unicode).              *)
(***************************************************************************)
UpperChars == <<"A","B","C","D","E","F","G","H","I","J","K","L","M",
                "N","O","P","Q","R","S","T","U","V","W","X","Y","Z">>
LowerChars == <<"a","b","c","d","e","f","g","h","i","j","k","l","m",
                "n","o","p","q","r","s","t","u","v","w","x","y","z">>

IsUpper(r) == \E i \in 1..Len(UpperChars) : UpperChars[i] = r
IsLower(r) == \E i \in 1..Len(LowerChars) : LowerChars[i] = r
ToLower(r) ==
    IF IsUpper(r) THEN LowerChars[CHOOSE i \in 1..Len(UpperChars) : UpperChars[i] = r]
    ELSE r
ToUpper(r) ==
    IF IsLower(r) THEN UpperChars[CHOOSE i \in 1..Len(LowerChars) : LowerChars[i] = r]
    ELSE r

HasSuffix(s, suffix) ==
    /\ Len(s) >= Len(suffix)
    /\ SubSeq(s, Len(s) - Len(suffix) + 1, Len(s)) = suffix
TrimSuffix(s, suffix) ==
    IF HasSuffix(s, suffix) THEN SubSeq(s, 1, Len(s) - Len(suffix)) ELSE s
Contains(s, sub) ==
    \E i \in 1..(Len(s) + 1) :
        /\ i + Len(sub) - 1 <= Len(s)
        /\ SubSeq(s, i, i + Len(sub) - 1) = sub
\* strings.Split(s, ",")[0]: the text before the first comma
SplitFirst(s) ==
    IF \E i \in 1..Len(s) : s[i] = ","
    THEN SubSeq(s, 1, (CHOOSE i \in 1..Len(s) :
                          /\ s[i] = ","
                          /\ \A j \in 1..(i - 1) : s[j] # ",") - 1)
    ELSE s
StrLower(s) == [i \in 1..Len(s) |-> ToLower(s[i])]

\* String literals of the source
S_ID        == <<"I","D">>
S_Dash      == <<"-">>
S_omitempty == <<"o","m","i","t","e","m","p","t","y">>
S_api       == <<"/","a","p","i","/">>
S_colonId   == <<"/",":","i","d">>
S_braceId   == <<"/","{","i","d","}">>
S_slash     == <<"/">>
S_timeTime  == <<"t","i","m","e",".","T","i","m","e">>

(***************************************************************************)
(* Naming engine.                                                          *)
(***************************************************************************)
RECURSIVE toSnakeCaseFrom(_, _)
toSnakeCaseFrom(s, i) ==
    IF i > Len(s) THEN <<>>
    ELSE (IF IsUpper(s[i])
          THEN (IF i > 1 THEN <<"_">> ELSE <<>>) \o <<ToLower(s[i])>>
          ELSE <<s[i]>>) \o toSnakeCaseFrom(s, i + 1)
toSnakeCase(s) == toSnakeCaseFrom(s, 1)

RECURSIVE toCamelCaseFrom(_, _, _)
toCamelCaseFrom(s, i, nextUpper) ==
    IF i > Len(s) THEN <<>>
    ELSE IF s[i] = "_" THEN toCamelCaseFrom(s, i + 1, TRUE)
    ELSE IF nextUpper THEN <<ToUpper(s[i])>> \o toCamelCaseFrom(s, i + 1, FALSE)
    ELSE <<s[i]>> \o toCamelCaseFrom(s, i + 1, FALSE)
\* a camel case that also capitalizes the first letter
toCamelCaseUpperFirst(s) == toCamelCaseFrom(s, 1, TRUE)

toCamelCase(s) == toCamelCaseFrom(s, 1, FALSE)

\* a pluralization that keeps the "y" after a vowel
pluralizeVowelY(s) ==
    IF HasSuffix(s, <<"y">>) /\ ~HasSuffix(s, <<"a","y">>)
    THEN TrimSuffix(s, <<"y">>) \o <<"i","e","s">>
    ELSE IF \/ HasSuffix(s, <<"s">>) \/ HasSuffix(s, <<"x">>)
            \/ HasSuffix(s, <<"z">>) \/ HasSuffix(s, <<"c","h">>)
            \/ HasSuffix(s, <<"s","h">>)
    THEN s \o <<"e","s">>
    ELSE s \o <<"s">>

pluralize(s) ==
    IF HasSuffix(s, <<"y">>) THEN TrimSuffix(s, <<"y">>) \o <<"i","e","s">>
    ELSE IF \/ HasSuffix(s, <<"s">>) \/ HasSuffix(s, <<"x">>)
            \/ HasSuffix(s, <<"z">>) \/ HasSuffix(s, <<"c","h">>)
            \/ HasSuffix(s, <<"s","h">>)
    THEN s \o <<"e","s">>
    ELSE s \o <<"s">>

(***************************************************************************)
(* Go types as reflect sees them.                                          *)
(***************************************************************************)
TBool   == [kind |-> "bool"]
TInt    == [kind |-> "int"]
TUint   == [kind |-> "uint"]
TString == [kind |-> "string"]
Named(pkg, name) == [kind |-> "struct", pkg |-> pkg, name |-> name]
SliceOf(t) == [kind |-> "slice", elem |-> t]
MapOf(t)   == [kind |-> "map", elem |-> t]
PtrTo(t)   == [kind |-> "ptr", elem |-> t]

P_time   == <<"t","i","m","e">>
P_apigen == <<"a","p","i","g","e","n">>
P_blog   == <<"b","l","o","g">>
N_Time    == <<"T","i","m","e">>
N_User    == <<"U","s","e","r">>
N_Post    == <<"P","o","s","t">>
N_Profile == <<"P","r","o","f","i","l","e">>
N_Note    == <<"N","o","t","e">>
N_Token   == <<"T","o","k","e","n">>
N_Comment == <<"C","o","m","m","e","n","t">>
N_Thread  == <<"T","h","r","e","a","d">>
N_Node    == <<"N","o","d","e">>

TTime == Named(P_time, N_Time)

\* reflect.Type.String() of a named type: "pkg.Name"
TypeString(t) == IF t.kind = "struct" THEN t.pkg \o <<".">> \o t.name ELSE <<>>
\* reflect.Type.Name()
TypeName(t) == IF t.kind = "struct" THEN t.name ELSE <<>>

isBasicType(t) ==
    \/ TypeString(t) = S_timeTime
    \/ t.kind \in {"bool", "int", "uint", "float", "string"}

(***************************************************************************)
(* The struct declarations of the programs that use the package.           *)
(* A declared field has a Go name, a type, its json tag and whether its    *)
(* binding tag says "required".                                            *)
(***************************************************************************)
F(name, type, json, required) ==
    [Name |-> name, Type |-> type, Tag |-> json, Required |-> required]

J_id        == <<"i","d">>
J_name      == <<"n","a","m","e">>
J_email     == <<"e","m","a","i","l">>
J_title     == <<"t","i","t","l","e">>
J_content   == <<"c","o","n","t","e","n","t">>
J_user_id   == <<"u","s","e","r","_","i","d">>
J_body      == <<"b","o","d","y">>
J_post      == <<"p","o","s","t">>
J_root      == <<"r","o","o","t">>
J_next      == <<"n","e","x","t">>
J_children  == <<"c","h","i","l","d","r","e","n">>
J_by_label  == <<"b","y","_","l","a","b","e","l">>
J_created   == <<"c","r","e","a","t","e","d","_","a","t">>
J_updated   == <<"u","p","d","a","t","e","d","_","a","t">>
J_ageOmit   == <<"a","g","e",",">> \o S_omitempty
J_postsOmit == <<"p","o","s","t","s",",">> \o S_omitempty
J_userOmit  == <<"u","s","e","r",",">> \o S_omitempty
J_bioOmit   == <<"b","i","o",",">> \o S_omitempty
J_onlyOmit  == <<",">> \o S_omitempty
J_dashOmit  == <<"-",",">> \o S_omitempty

\* the example models of the package (README "Relationships")
ApigenUser == Named(P_apigen, N_User)
ApigenPost == Named(P_apigen, N_Post)
\* the two plain models: User{ID, Name, Email}, Post{ID, UserID, Title}
BlogUser == Named(P_blog, N_User)
BlogPost == Named(P_blog, N_Post)
\* a model with a string ID whose fields carry every shape of json tag
BlogProfile == Named(P_blog, N_Profile)
\* a model without an ID field
BlogNote == Named(P_blog, N_Note)
\* a model whose ID is serialized under the name "-"
BlogToken == Named(P_blog, N_Token)
\* a model whose only relationship is a nested record: Comment{ID, Post Post}
BlogComment == Named(P_blog, N_Comment)
\* a model with a nested record that refers to itself:
\* Thread{ID, Root Node}, Node{Next *Node, Children []Node, ByLabel map[string]Node}
BlogThread == Named(P_blog, N_Thread)
\* the nested record, which is not offered for registration
BlogNode == Named(P_blog, N_Node)

StructTypes ==
    {ApigenUser, ApigenPost, BlogUser, BlogPost, BlogProfile, BlogNote, BlogToken,
     BlogComment, BlogThread}

\* Go field names
G_Name      == <<"N","a","m","e">>
G_Email     == <<"E","m","a","i","l">>
G_Age       == <<"A","g","e">>
G_CreatedAt == <<"C","r","e","a","t","e","d","A","t">>
G_UpdatedAt == <<"U","p","d","a","t","e","d","A","t">>
G_Posts     == <<"P","o","s","t","s">>
G_Title     == <<"T","i","t","l","e">>
G_Content   == <<"C","o","n","t","e","n","t">>
G_UserID    == <<"U","s","e","r","I","D">>
G_User      == <<"U","s","e","r">>
G_Secret    == <<"S","e","c","r","e","t">>
G_Hidden    == <<"H","i","d","d","e","n">>
G_Dash      == <<"D","a","s","h">>
G_Bio       == <<"B","i","o">>
G_Body      == <<"B","o","d","y">>
G_Post      == <<"P","o","s","t">>
G_Root      == <<"R","o","o","t">>
G_Next      == <<"N","e","x","t">>
G_Children  == <<"C","h","i","l","d","r","e","n">>
G_ByLabel   == <<"B","y","L","a","b","e","l">>

StructFields(t) ==
    CASE t = ApigenUser ->
           << F(S_ID,        TUint,               J_id,        FALSE),
              F(G_Name,      TString,             J_name,      TRUE),
              F(G_Email,     TString,             J_email,     TRUE),
              F(G_Age,       TInt,                J_ageOmit,   FALSE),
              F(G_CreatedAt, TTime,               J_created,   FALSE),
              F(G_UpdatedAt, TTime,               J_updated,   FALSE),
              F(G_Posts,     SliceOf(ApigenPost), J_postsOmit, FALSE) >>
      [] t = ApigenPost ->
           << F(S_ID,        TUint,      J_id,       FALSE),
              F(G_Title,     TString,    J_title,    TRUE),
              F(G_Content,   TString,    J_content,  TRUE),
              F(G_UserID,    TUint,      J_user_id,  FALSE),
              F(G_User,      ApigenUser, J_userOmit, FALSE),
              F(G_CreatedAt, TTime,      J_created,  FALSE),
              F(G_UpdatedAt, TTime,      J_updated,  FALSE) >>
      [] t = BlogUser ->
           << F(S_ID,    TUint,   J_id,    FALSE),
              F(G_Name,  TString, J_name,  FALSE),
              F(G_Email, TString, J_email, TRUE) >>
      [] t = BlogPost ->
           << F(S_ID,     TUint,   J_id,      FALSE),
              F(G_UserID, TUint,   J_user_id, FALSE),
              F(G_Title,  TString, J_title,   FALSE) >>
      [] t = BlogProfile ->
           << F(S_ID,     TString, J_id,       FALSE),
              F(G_Secret, TString, S_Dash,     FALSE),
              F(G_Hidden, TString, <<>>,       FALSE),
              F(G_Age,    TInt,    J_onlyOmit, FALSE),
              F(G_Dash,   TString, J_dashOmit, FALSE),
              F(G_Bio,    TString, J_bioOmit,  FALSE) >>
      [] t = BlogNote ->
           << F(G_Body, TString, J_body, FALSE) >>
      [] t = BlogToken ->
           << F(S_ID,   TUint,   J_dashOmit, FALSE),
              F(G_Body, TString, J_body,     FALSE) >>
      [] t = BlogComment ->
           << F(S_ID,   TUint,    J_id,   FALSE),
              F(G_Post, BlogPost, J_post, FALSE) >>
      [] t = BlogThread ->
           << F(S_ID,   TUint,    J_id,   FALSE),
              F(G_Root, BlogNode, J_root, FALSE) >>
      [] t = BlogNode ->
           << F(G_Next,     PtrTo(BlogNode),   J_next,     FALSE),
              F(G_Children, SliceOf(BlogNode), J_children, FALSE),
              F(G_ByLabel,  MapOf(BlogNode),   J_by_label, FALSE) >>
      [] OTHER -> <<>>

(***************************************************************************)
(* RegisterModel.                                                          *)
(***************************************************************************)
NoString == <<>>

ModelInfo(type, fields, fks, resourceName, pluralName) ==
    [Type |-> type, Fields |-> fields, ForeignKeys |-> fks,
     ResourceName |-> resourceName, PluralName |-> pluralName]

FieldInfo(field) ==
    [Name      |-> field.Name,
     JSONName  |-> SplitFirst(field.Tag),
     Type      |-> field.Type,
     IsID      |-> (field.Name = S_ID \/ HasSuffix(field.Name, S_ID)),
     OmitEmpty |-> Contains(field.Tag, S_omitempty)]

ForeignKeyInfo(fieldName, relatedModel, relatedField, relationshipID) ==
    [FieldName |-> fieldName, RelatedModel |-> relatedModel,
     RelatedField |-> relatedField, RelationshipID |-> relationshipID]

\* Rule A without the test for basic types
NestedForeignKeyAnyStruct(field) ==
    IF field.Type.kind = "struct"
    THEN << ForeignKeyInfo(field.Name, TypeName(field.Type), S_ID, NoString) >>
    ELSE <<>>

\* Rule A: a struct-kinded field that is not a basic type
NestedForeignKey(field) ==
    IF field.Type.kind = "struct" /\ ~isBasicType(field.Type)
    THEN << ForeignKeyInfo(field.Name, TypeName(field.Type), S_ID, NoString) >>
    ELSE <<>>

\* Rule B without the explicit relationship column
IDForeignKeyNoColumn(field) ==
    IF HasSuffix(field.Name, S_ID) /\ field.Type.kind = "uint"
    THEN << ForeignKeyInfo(field.Name, TrimSuffix(field.Name, S_ID),
                           NoString, NoString) >>
    ELSE <<>>

\* Rule B: a uint field whose name ends in "ID"
IDForeignKey(field) ==
    IF HasSuffix(field.Name, S_ID) /\ field.Type.kind = "uint"
    THEN << ForeignKeyInfo(field.Name, TrimSuffix(field.Name, S_ID),
                           NoString, field.Name) >>
    ELSE <<>>

SkipField(field) == field.Tag = <<>> \/ field.Tag = S_Dash

RECURSIVE ProcessFields(_, _, _)
ProcessFields(fields, i, modelInfo) ==
    IF i > Len(fields) THEN modelInfo
    ELSE IF SkipField(fields[i]) THEN ProcessFields(fields, i + 1, modelInfo)
    ELSE ProcessFields(fields, i + 1,
            [modelInfo EXCEPT
                !.Fields = Append(@, FieldInfo(fields[i])),
                !.ForeignKeys = @ \o NestedForeignKey(fields[i])
                                  \o IDForeignKey(fields[i])])

\* reflect.TypeOf(model), with one pointer level removed
ModelType(model) == IF model.kind = "ptr" THEN model.elem ELSE model

\* a resource name that is always derived from the type's name
ResolveResourceNameDerived(modelType, resourceName) ==
    toSnakeCase(TypeName(modelType))

ResolveResourceName(modelType, resourceName) ==
    IF resourceName = <<>> THEN toSnakeCase(TypeName(modelType)) ELSE resourceName

AnalyzeRegistered(modelType, resourceName) ==
    LET rn == ResolveResourceName(modelType, resourceName)
    IN  ProcessFields(StructFields(modelType), 1,
                      ModelInfo(modelType, <<>>, <<>>, rn, pluralize(rn)))

\* ModelAnalyzer.AnalyzeModel: the ModelInfo of a value, under the derived name
AnalyzeModel(model) ==
    LET modelType == ModelType(model)
    IN  IF modelType.kind # "struct"
        THEN [err |-> TRUE, info |-> ModelInfo(NoString, <<>>, <<>>, NoString, NoString)]
        ELSE [err |-> FALSE, info |-> AnalyzeRegistered(modelType, <<>>)]

\* map[string]... helpers
EmptyMap == [k \in {} |-> 0]
MapPut(m, k, v) == [x \in (DOMAIN m) \cup {k} |-> IF x = k THEN v ELSE m[x]]

\* the values callers hand to RegisterModel: a struct, a pointer to one,
\* a scalar, a slice, a pointer to a scalar
ModelInputs ==
    StructTypes \cup {PtrTo(BlogPost), TUint, SliceOf(BlogUser), PtrTo(TUint)}

S_item == <<"i","t","e","m">>
\* the resourceName arguments: "" (derive it) and an explicit name
ResourceNameArgs == {<<>>, S_item}

\* a registration that resolves the relationship targets at once: it keeps
\* only the foreign keys whose related model is registered already
RegisterModelResultResolved(models, model, resourceName) ==
    LET modelType == ModelType(model)
        modelInfo == AnalyzeRegistered(modelType, resourceName)
        resolved(fk) == fk.RelatedModel \in DOMAIN models
    IN  IF modelType.kind # "struct"
        THEN [err |-> TRUE, Models |-> models]
        ELSE [err |-> FALSE,
              Models |-> MapPut(models, TypeName(modelType),
                                [modelInfo EXCEPT
                                    !.ForeignKeys = SelectSeq(@, resolved)])]

\* a registration that stores the ModelInfo under its resource name
RegisterModelResultByResource(models, model, resourceName) ==
    LET modelType == ModelType(model)
    IN  IF modelType.kind # "struct"
        THEN [err |-> TRUE, Models |-> models]
        ELSE [err |-> FALSE,
              Models |-> MapPut(models, ResolveResourceName(modelType, resourceName),
                                AnalyzeRegistered(modelType, resourceName))]

\* a registration that reports the error after storing what it analyzed
RegisterModelResultStored(models, model, resourceName) ==
    LET modelType == ModelType(model)
    IN  [err |-> modelType.kind # "struct",
         Models |-> MapPut(models, TypeName(modelType),
                           AnalyzeRegistered(modelType, resourceName))]

RegisterModelResult(models, model, resourceName) ==
    LET modelType == ModelType(model)
    IN  IF modelType.kind # "struct"
        THEN [err |-> TRUE, Models |-> models]
        ELSE [err |-> FALSE,
              Models |-> MapPut(models, TypeName(modelType),
                                AnalyzeRegistered(modelType, resourceName))]

(***************************************************************************)
(* Route synthesis.                                                        *)
(***************************************************************************)
NoFK == ForeignKeyInfo(NoString, NoString, NoString, NoString)

Handler(kind, modelInfo, fk) == [kind |-> kind, modelInfo |-> modelInfo, fk |-> fk]

\* gin: Router.GET / POST / PUT / DELETE (path, handler)
Bind(router, method, path, handler) ==
    LET key == <<method, path>>
    IN  IF key \in DOMAIN router
        THEN [router EXCEPT ![key] = Append(@, handler)]
        ELSE MapPut(router, key, <<handler>>)

BasePath(modelInfo) == S_api \o modelInfo.PluralName
ItemPath(modelInfo) == BasePath(modelInfo) \o S_colonId
\* a relationship path named after the field that carries the key
RelatedPathByField(modelInfo, fk) ==
    BasePath(modelInfo) \o S_colonId \o S_slash \o toSnakeCase(fk.FieldName)

RelatedPath(modelInfo, fk) ==
    BasePath(modelInfo) \o S_colonId \o S_slash \o toSnakeCase(fk.RelatedModel)

BindCRUD(router, modelInfo) ==
    LET r1 == Bind(router, "GET", BasePath(modelInfo), Handler("list", modelInfo, NoFK))
        r2 == Bind(r1, "GET", ItemPath(modelInfo), Handler("get", modelInfo, NoFK))
        r3 == Bind(r2, "POST", BasePath(modelInfo), Handler("create", modelInfo, NoFK))
        r4 == Bind(r3, "PUT", ItemPath(modelInfo), Handler("update", modelInfo, NoFK))
    IN  Bind(r4, "DELETE", ItemPath(modelInfo), Handler("delete", modelInfo, NoFK))

\* a guard of the relationship loop that does not look at the related name
ShouldBindRelatedUnnamed(registered, fk, relatedPath) ==
    relatedPath \notin registered

\* a relationship loop that does not consult RegisteredPaths
ShouldBindRelatedUntracked(registered, fk, relatedPath) ==
    fk.RelatedModel # NoString

\* the guard of the relationship loop: bind unless the path is already registered
ShouldBindRelated(registered, fk, relatedPath) ==
    fk.RelatedModel # NoString /\ relatedPath \notin registered

\* a relationship loop in which a later foreign key takes the route over
RECURSIVE BindRelatedLastWins(_, _, _)
BindRelatedLastWins(g, modelInfo, i) ==
    IF i > Len(modelInfo.ForeignKeys) THEN g
    ELSE LET fk == modelInfo.ForeignKeys[i]
             relatedPath == RelatedPath(modelInfo, fk)
         IN  IF fk.RelatedModel = NoString
             THEN BindRelatedLastWins(g, modelInfo, i + 1)
             ELSE BindRelatedLastWins(
                    [Router |-> MapPut(g.Router, <<"GET", relatedPath>>,
                                       <<Handler("related", modelInfo, fk)>>),
                     RegisteredPaths |-> g.RegisteredPaths \cup {relatedPath}],
                    modelInfo, i + 1)

\* g = [Router, RegisteredPaths]
RECURSIVE BindRelated(_, _, _)
BindRelated(g, modelInfo, i) ==
    IF i > Len(modelInfo.ForeignKeys) THEN g
    ELSE LET fk == modelInfo.ForeignKeys[i]
             relatedPath == RelatedPath(modelInfo, fk)
         IN  IF ShouldBindRelated(g.RegisteredPaths, fk, relatedPath)
             THEN BindRelated(
                    [Router |-> Bind(g.Router, "GET", relatedPath,
                                     Handler("related", modelInfo, fk)),
                     RegisteredPaths |-> g.RegisteredPaths \cup {relatedPath}],
                    modelInfo, i + 1)
             ELSE BindRelated(g, modelInfo, i + 1)

generateModelAPI(g, modelInfo) ==
    BindRelated([Router |-> BindCRUD(g.Router, modelInfo),
                 RegisteredPaths |-> g.RegisteredPaths],
                modelInfo, 1)

\* the orders in which a range over a Go map may visit its keys
MapOrders(m) ==
    {o \in [1..Cardinality(DOMAIN m) -> DOMAIN m] :
        \A i, j \in DOMAIN o : i # j => o[i] # o[j]}

RECURSIVE GenerateAll(_, _, _, _)
GenerateAll(g, models, order, i) ==
    IF i > Len(order) THEN g
    ELSE GenerateAll(generateModelAPI(g, models[order[i]]), models, order, i + 1)

(***************************************************************************)
(* The persistence layer (GORM): one table per struct type, a row maps     *)
(* every declared field to its value.                                      *)
(***************************************************************************)
MaxId == 2        \* largest primary key the tables hold

\* decimal text of the numbers that occur as keys
NumStr == <<"1", "2", "3", "4">>
IsNumeric(id) == \E n \in 1..Len(NumStr) : NumStr[n] = id
\* strconv.ParseUint(id, 10, 64), where it succeeds
ParseUint(id) == CHOOSE n \in 1..Len(NumStr) : NumStr[n] = id

FieldNames(t) == {StructFields(t)[i].Name : i \in 1..Len(StructFields(t))}
FieldByName(t, name) ==
    StructFields(t)[CHOOSE i \in 1..Len(StructFields(t)) : StructFields(t)[i].Name = name]
HasField(t, name) == name \in FieldNames(t)

ZeroValue(type) ==
    CASE type.kind \in {"int", "uint"} -> 0
      [] type.kind = "string" -> ""
      [] type.kind = "bool" -> FALSE
      [] OTHER -> "zero"

\* reflect.New(modelInfo.Type): the zero instance
NewInstance(t) == [n \in FieldNames(t) |-> ZeroValue(FieldByName(t, n).Type)]

\* the row every table holds before the first request
SeedRow(t) ==
    [n \in FieldNames(t) |->
        LET type == FieldByName(t, n).Type
        IN  IF n = S_ID THEN (IF type.kind = "string" THEN "1" ELSE 1)
            ELSE IF type.kind = "string" THEN "a"
            ELSE ZeroValue(type)]

\* the primary key of a row as the text a path carries
KeyText(t, row) ==
    IF FieldByName(t, S_ID).Type.kind = "string" THEN row[S_ID]
    ELSE IF row[S_ID] \in 1..Len(NumStr) THEN NumStr[row[S_ID]]
    ELSE "0"

\* one call on the persistence layer, as the request log keeps it
DBCall(op, table, column, value, res) ==
    [op |-> op, table |-> table, column |-> column, value |-> value, res |-> res]

\* path texts that are not numbers and that GORM reads as an SQL condition
\* every row satisfies
ConditionIds == {"1=1"}

\* db.First(instance, id): primary-key lookup with the path text as condition
FirstByPK(rows, t, id, fail) ==
    IF fail \/ ~HasField(t, S_ID) THEN [res |-> "err", row |-> NewInstance(t)]
    ELSE LET hit == IF id \in ConditionIds THEN rows
                    ELSE {r \in rows : KeyText(t, r) = id}
         IN  IF hit = {} THEN [res |-> "notfound", row |-> NewInstance(t)]
             ELSE [res |-> "found", row |-> CHOOSE r \in hit : TRUE]

\* db.Where("id = ?", id).First(instance)
FirstWhereID(rows, t, id, fail) ==
    IF fail THEN [res |-> "err", row |-> NewInstance(t)]
    ELSE LET hit == {r \in rows : r[S_ID] = id}
         IN  IF hit = {} THEN [res |-> "notfound", row |-> NewInstance(t)]
             ELSE [res |-> "found", row |-> CHOOSE r \in hit : TRUE]

SamePK(t, r1, r2) == HasField(t, S_ID) /\ r1[S_ID] = r2[S_ID]

FreeIds(rows) == {n \in 1..MaxId : \A r \in rows : r[S_ID] # n}

\* db.Create(instance): the key is assigned when the instance carries none
AutoKey(t, row) ==
    /\ HasField(t, S_ID)
    /\ FieldByName(t, S_ID).Type.kind \in {"int", "uint"}
    /\ row[S_ID] = 0
CanCreate(rows, t, row) == AutoKey(t, row) => FreeIds(rows) # {}
CreateRow(rows, t, row, fail) ==
    LET inst == IF AutoKey(t, row)
                THEN [row EXCEPT ![S_ID] = CHOOSE n \in FreeIds(rows) :
                                              \A m \in FreeIds(rows) : n <= m]
                ELSE row
    IN  IF fail \/ \E r \in rows : SamePK(t, r, inst)
        THEN [err |-> TRUE, row |-> row, rows |-> rows]
        ELSE [err |-> FALSE, row |-> inst, rows |-> rows \cup {inst}]

\* db.Save(instance): writes every field of the row with the instance's key
SaveRow(rows, t, row, fail) ==
    IF fail THEN [err |-> TRUE, rows |-> rows]
    ELSE [err |-> FALSE,
          rows |-> {r \in rows : ~SamePK(t, r, row)} \cup {row}]

\* db.Delete(instance)
DeleteRow(rows, t, row, fail) ==
    IF fail THEN [err |-> TRUE, rows |-> rows]
    ELSE [err |-> FALSE, rows |-> {r \in rows : ~SamePK(t, r, row)}]

\* query.Where(column, value).Find(results) on the table of type t
ColumnField(t, column) ==
    {n \in FieldNames(t) : StrLower(n) = StrLower(column)}
\* a column value as SQL text, to compare it with a query argument
ValueText(type, v) ==
    IF type.kind = "string" THEN v
    ELSE IF type.kind \in {"int", "uint"}
    THEN (IF v \in 1..Len(NumStr) THEN NumStr[v] ELSE "0")
    ELSE "zero"
FindWhere(rows, t, column, text, fail) ==
    IF fail \/ ColumnField(t, column) = {} THEN [err |-> TRUE, rows |-> {}]
    ELSE LET n == CHOOSE x \in ColumnField(t, column) : TRUE
         IN  [err |-> FALSE,
              rows |-> {r \in rows : ValueText(FieldByName(t, n).Type, r[n]) = text}]

(***************************************************************************)
(* Request bodies and c.ShouldBindJSON.                                    *)
(***************************************************************************)
JNum(n) == [kind |-> "number", num |-> n, str |-> ""]
JStr(x) == [kind |-> "string", num |-> 0, str |-> x]
J_bio == <<"b","i","o">>

BodyMalformed == [malformed |-> TRUE, obj |-> EmptyMap]
BodyEmpty     == [malformed |-> FALSE, obj |-> EmptyMap]
\* a body that names only the name
BodyName ==
    [malformed |-> FALSE, obj |-> [k \in {J_name} |-> JStr("b")]]
\* a body that names the text fields of every model and a numeric id
BodyTextsId ==
    [malformed |-> FALSE,
     obj |-> [k \in {J_id, J_name, J_email, J_title, J_content, J_bio} |->
                IF k = J_id THEN JNum(2) ELSE JStr("b")]]
Bodies == {BodyMalformed, BodyEmpty, BodyName, BodyTextsId}

\* encoding/json: the key a declared field is decoded from
HasJSONKey(field) == field.Tag # S_Dash
JSONKey(field) ==
    IF SplitFirst(field.Tag) # <<>> THEN SplitFirst(field.Tag) ELSE field.Name
\* the body key that addresses the field (keys match case-insensitively)
BodyKeys(field, obj) ==
    IF HasJSONKey(field)
    THEN {k \in DOMAIN obj : StrLower(k) = StrLower(JSONKey(field))}
    ELSE {}
Fits(type, jv) ==
    \/ type.kind \in {"int", "uint"} /\ jv.kind = "number"
    \/ type.kind = "string" /\ jv.kind = "string"
Scalar(jv) == IF jv.kind = "number" THEN jv.num ELSE jv.str

\* json.Unmarshal onto the instance: a field the body names takes the
\* body's value, every other field keeps the instance's
Decode(t, instance, obj) ==
    [n \in FieldNames(t) |->
        LET field == FieldByName(t, n)
            keys == BodyKeys(field, obj)
        IN  IF keys # {} /\ Fits(field.Type, obj[CHOOSE k \in keys : TRUE])
            THEN Scalar(obj[CHOOSE k \in keys : TRUE])
            ELSE instance[n]]
Mismatch(t, obj) ==
    \E n \in FieldNames(t) :
        LET field == FieldByName(t, n)
            keys == BodyKeys(field, obj)
        IN  keys # {} /\ ~Fits(field.Type, obj[CHOOSE k \in keys : TRUE])
\* binding:"required" on a field whose value is zero
MissingRequired(t, instance) ==
    \E n \in FieldNames(t) :
        /\ FieldByName(t, n).Required
        /\ instance[n] = ZeroValue(FieldByName(t, n).Type)

\* the binder's verdict on the decoded instance
Validated(t, bound, obj) ==
    IF Mismatch(t, obj)
    THEN [err |-> TRUE, reason |-> "cannot unmarshal", instance |-> bound]
    ELSE IF MissingRequired(t, bound)
    THEN [err |-> TRUE, reason |-> "failed on the 'required' tag", instance |-> bound]
    ELSE [err |-> FALSE, reason |-> "", instance |-> bound]

ShouldBindJSON(t, instance, body) ==
    IF body.malformed
    THEN [err |-> TRUE, reason |-> "invalid character", instance |-> instance]
    ELSE Validated(t, Decode(t, instance, body.obj), body.obj)

(***************************************************************************)
(* The handlers.  Each returns the response, the persistence calls it made *)
(* and the rows of the tables afterwards.                                  *)
(***************************************************************************)
StatusOK == 200
StatusCreated == 201
StatusNoContent == 204
StatusBadRequest == 400
StatusNotFound == 404
StatusInternalServerError == 500

ErrorBody(msg) == [kind |-> "error", error |-> msg]
InstanceBody(row) == [kind |-> "instance", instance |-> row]
ListBody(rows) == [kind |-> "list", list |-> rows]
NoBody == [kind |-> "none"]

Response(status, body, calls, rows) ==
    [panic |-> FALSE, status |-> status, body |-> body, calls |-> calls, rows |-> rows]
\* a nil dereference inside the handler: no response is written
Panic(calls, rows) ==
    [panic |-> TRUE, status |-> 0, body |-> NoBody, calls |-> calls, rows |-> rows]

\* the outcome of a lookup together with its entry in the request log
Logged(q, op, t, column, id) ==
    [res |-> q.res, row |-> q.row, call |-> DBCall(op, t, column, id, q.res)]

\* the lookup that get, update and delete share: by "id = ?" when the ID
\* field is a string, by primary key otherwise
LookupByID(modelInfo, rows, id, fail) ==
    LET t == modelInfo.Type
    IN  IF FieldByName(t, S_ID).Type.kind = "string"
        THEN Logged(FirstWhereID(rows, t, id, fail), "Where.First", t, J_id, id)
        ELSE Logged(FirstByPK(rows, t, id, fail), "First", t, NoString, id)

LookupFailure(q, rows) ==
    IF q.res = "notfound"
    THEN Response(StatusNotFound, ErrorBody("Record not found"), <<q.call>>, rows)
    ELSE Response(StatusInternalServerError, ErrorBody("db error"), <<q.call>>, rows)

listHandler(modelInfo, rows, fail) ==
    IF fail
    THEN Response(StatusInternalServerError, ErrorBody("db error"),
                  <<DBCall("Find", modelInfo.Type, NoString, "", "err")>>, rows)
    ELSE Response(StatusOK, ListBody(rows),
                  <<DBCall("Find", modelInfo.Type, NoString, "", "ok")>>, rows)

getHandler(modelInfo, rows, id, fail) ==
    IF id = "" THEN Response(StatusBadRequest, ErrorBody("ID is required"), <<>>, rows)
    ELSE IF ~HasField(modelInfo.Type, S_ID) THEN Panic(<<>>, rows)
    ELSE LET q == LookupByID(modelInfo, rows, id, fail)
         IN  IF q.res # "found" THEN LookupFailure(q, rows)
             ELSE Response(StatusOK, InstanceBody(q.row), <<q.call>>, rows)

\* a create that persists whatever the binder left in the instance
createHandlerUnchecked(modelInfo, rows, body, fail) ==
    LET t == modelInfo.Type
        b == ShouldBindJSON(t, NewInstance(t), body)
        c == CreateRow(rows, t, b.instance, fail)
    IN  IF c.err
        THEN Response(StatusInternalServerError, ErrorBody("db error"),
                      <<DBCall("Create", t, NoString, "", "err")>>, rows)
        ELSE Response(StatusCreated, InstanceBody(c.row),
                      <<DBCall("Create", t, NoString, "", "ok")>>, c.rows)

createHandler(modelInfo, rows, body, fail) ==
    LET t == modelInfo.Type
        b == ShouldBindJSON(t, NewInstance(t), body)
    IN  IF b.err THEN Response(StatusBadRequest, ErrorBody(b.reason), <<>>, rows)
        ELSE LET c == CreateRow(rows, t, b.instance, fail)
             IN  IF c.err
                 THEN Response(StatusInternalServerError, ErrorBody("db error"),
                               <<DBCall("Create", t, NoString, "", "err")>>, rows)
                 ELSE Response(StatusCreated, InstanceBody(c.row),
                               <<DBCall("Create", t, NoString, "", "ok")>>, c.rows)

\* an update that binds the body onto a fresh instance (replace, not merge)
UpdateFoundReplace(modelInfo, rows, q, body, fail) ==
    LET t == modelInfo.Type
        b == ShouldBindJSON(t, [NewInstance(t) EXCEPT ![S_ID] = q.row[S_ID]], body)
    IN  IF b.err THEN Response(StatusBadRequest, ErrorBody(b.reason), <<q.call>>, rows)
        ELSE LET sv == SaveRow(rows, t, b.instance, fail)
             IN  IF sv.err
                 THEN Response(StatusInternalServerError, ErrorBody("db error"),
                               <<q.call, DBCall("Save", t, NoString, "", "err")>>, rows)
                 ELSE Response(StatusOK, InstanceBody(b.instance),
                               <<q.call, DBCall("Save", t, NoString, "", "ok")>>, sv.rows)

\* the part of updateHandler after a successful lookup
UpdateFound(modelInfo, rows, q, body, fail) ==
    LET t == modelInfo.Type
        b == ShouldBindJSON(t, q.row, body)
    IN  IF b.err THEN Response(StatusBadRequest, ErrorBody(b.reason), <<q.call>>, rows)
        ELSE LET sv == SaveRow(rows, t, b.instance, fail)
             IN  IF sv.err
                 THEN Response(StatusInternalServerError, ErrorBody("db error"),
                               <<q.call, DBCall("Save", t, NoString, "", "err")>>, rows)
                 ELSE Response(StatusOK, InstanceBody(b.instance),
                               <<q.call, DBCall("Save", t, NoString, "", "ok")>>, sv.rows)

\* an update that saves the bound instance when the lookup finds nothing
updateHandlerUpsert(modelInfo, rows, id, body, fail1, fail2) ==
    IF id = "" THEN Response(StatusBadRequest, ErrorBody("ID is required"), <<>>, rows)
    ELSE IF ~HasField(modelInfo.Type, S_ID) THEN Panic(<<>>, rows)
    ELSE LET q == LookupByID(modelInfo, rows, id, fail1)
         IN  IF q.res = "err" THEN LookupFailure(q, rows)
             ELSE UpdateFound(modelInfo, rows, q, body, fail2)

updateHandler(modelInfo, rows, id, body, fail1, fail2) ==
    IF id = "" THEN Response(StatusBadRequest, ErrorBody("ID is required"), <<>>, rows)
    ELSE IF ~HasField(modelInfo.Type, S_ID) THEN Panic(<<>>, rows)
    ELSE LET q == LookupByID(modelInfo, rows, id, fail1)
         IN  IF q.res # "found" THEN LookupFailure(q, rows)
             ELSE UpdateFound(modelInfo, rows, q, body, fail2)

\* the part of deleteHandler after a successful lookup
DeleteFound(modelInfo, rows, q, fail) ==
    LET t == modelInfo.Type
        d == DeleteRow(rows, t, q.row, fail)
    IN  IF d.err
        THEN Response(StatusInternalServerError, ErrorBody("db error"),
                      <<q.call, DBCall("Delete", t, NoString, "", "err")>>, rows)
        ELSE Response(StatusNoContent, NoBody,
                      <<q.call, DBCall("Delete", t, NoString, "", "ok")>>, d.rows)

\* a delete that does not look at the outcome of the lookup
deleteHandlerUnchecked(modelInfo, rows, id, fail1, fail2) ==
    IF id = "" THEN Response(StatusBadRequest, ErrorBody("ID is required"), <<>>, rows)
    ELSE IF ~HasField(modelInfo.Type, S_ID) THEN Panic(<<>>, rows)
    ELSE DeleteFound(modelInfo, rows, LookupByID(modelInfo, rows, id, fail1), fail2)

deleteHandler(modelInfo, rows, id, fail1, fail2) ==
    IF id = "" THEN Response(StatusBadRequest, ErrorBody("ID is required"), <<>>, rows)
    ELSE IF ~HasField(modelInfo.Type, S_ID) THEN Panic(<<>>, rows)
    ELSE LET q == LookupByID(modelInfo, rows, id, fail1)
         IN  IF q.res # "found" THEN LookupFailure(q, rows)
             ELSE DeleteFound(modelInfo, rows, q, fail2)

\* the column and the argument of the relationship query
RelatedColumn(modelInfo, fk) ==
    IF fk.RelationshipID # NoString THEN fk.RelationshipID
    ELSE modelInfo.ResourceName \o S_ID

\* a relationship query that hands the path text to the column filter as it is
RelatedQueryUnparsed(modelInfo, fk, relatedModelInfo, tables, parentCall, id, fail) ==
    LET rt == relatedModelInfo.Type
        rows == tables[modelInfo.Type]
        column == RelatedColumn(modelInfo, fk)
        f == FindWhere(tables[rt], rt, column, id, fail)
        call == DBCall("Where.Find", rt, column, [parsed |-> FALSE, text |-> id],
                       IF f.err THEN "err" ELSE "ok")
    IN  IF f.err
        THEN Response(StatusInternalServerError, ErrorBody("db error"),
                      <<parentCall, call>>, rows)
        ELSE Response(StatusOK, ListBody(f.rows), <<parentCall, call>>, rows)

\* the part of relatedHandler after the related model was found in g.Models
RelatedQuery(modelInfo, fk, relatedModelInfo, tables, parentCall, id, fail) ==
    LET rt == relatedModelInfo.Type
        rows == tables[modelInfo.Type]
    IN  IF fk.RelationshipID # NoString /\ ~IsNumeric(id)
        THEN Response(StatusBadRequest, ErrorBody("Invalid ID format"),
                      <<parentCall>>, rows)
        ELSE LET column == RelatedColumn(modelInfo, fk)
                 f == FindWhere(tables[rt], rt, column, id, fail)
                 call == DBCall("Where.Find", rt, column,
                                [parsed |-> fk.RelationshipID # NoString, text |-> id],
                                IF f.err THEN "err" ELSE "ok")
             IN  IF f.err
                 THEN Response(StatusInternalServerError, ErrorBody("db error"),
                               <<parentCall, call>>, rows)
                 ELSE Response(StatusOK, ListBody(f.rows), <<parentCall, call>>, rows)

\* a relationship handler that answers an empty list for an unregistered target
relatedHandlerLenient(modelInfo, fk, models, tables, id, fail1, fail2) ==
    LET t == modelInfo.Type
        rows == tables[t]
    IN  IF id = "" THEN Response(StatusBadRequest, ErrorBody("ID is required"), <<>>, rows)
        ELSE LET p == FirstByPK(rows, t, id, fail1)
                 parentCall == DBCall("First", t, NoString, id, p.res)
             IN  IF p.res = "notfound"
                 THEN Response(StatusNotFound, ErrorBody("Parent record not found"),
                               <<parentCall>>, rows)
                 ELSE IF p.res = "err"
                 THEN Response(StatusInternalServerError, ErrorBody("db error"),
                               <<parentCall>>, rows)
                 ELSE IF fk.RelatedModel \notin DOMAIN models
                 THEN Response(StatusOK, ListBody({}), <<parentCall>>, rows)
                 ELSE RelatedQuery(modelInfo, fk, models[fk.RelatedModel], tables,
                                   parentCall, id, fail2)

relatedHandler(modelInfo, fk, models, tables, id, fail1, fail2) ==
    LET t == modelInfo.Type
        rows == tables[t]
    IN  IF id = "" THEN Response(StatusBadRequest, ErrorBody("ID is required"), <<>>, rows)
        ELSE LET p == FirstByPK(rows, t, id, fail1)
                 parentCall == DBCall("First", t, NoString, id, p.res)
             IN  IF p.res = "notfound"
                 THEN Response(StatusNotFound, ErrorBody("Parent record not found"),
                               <<parentCall>>, rows)
                 ELSE IF p.res = "err"
                 THEN Response(StatusInternalServerError, ErrorBody("db error"),
                               <<parentCall>>, rows)
                 ELSE IF fk.RelatedModel \notin DOMAIN models
                 THEN Response(StatusInternalServerError,
                               ErrorBody("Related model not registered"),
                               <<parentCall>>, rows)
                 ELSE RelatedQuery(modelInfo, fk, models[fk.RelatedModel], tables,
                                   parentCall, id, fail2)

(***************************************************************************)
(* The Swagger generator.  A document is a record; a properties object is  *)
(* a function from property names to documents.  Summaries and             *)
(* descriptions, which are fixed texts, are left out.                      *)
(***************************************************************************)
MaxDepth == 4     \* nesting depth to which a type is unfolded

getIntegerFormat(t) == IF t.kind \in {"int64", "uint64"} THEN "int64" ELSE "int32"
getFloatFormat(t) == IF t.kind = "float64" THEN "double" ELSE "float"

\* the fields of an unregistered struct that an inline definition lists
InlineFields(t) ==
    SelectSeq(StructFields(t), LAMBDA field : ~SkipField(field))

RECURSIVE getSwaggerType(_, _, _)
getSwaggerType(models, t, depth) ==
    IF depth = 0 THEN [overflow |-> TRUE]
    ELSE CASE t.kind = "bool" -> [type |-> "boolean"]
           [] t.kind \in {"int", "int64", "uint", "uint64"} ->
                [type |-> "integer", format |-> getIntegerFormat(t)]
           [] t.kind \in {"float", "float64"} ->
                [type |-> "number", format |-> getFloatFormat(t)]
           [] t.kind = "string" -> [type |-> "string"]
           [] t.kind = "struct" ->
                IF TypeName(t) \in DOMAIN models
                THEN [ref |-> TypeName(models[TypeName(t)].Type)]
                ELSE IF TypeString(t) = S_timeTime
                THEN [type |-> "string", format |-> "date-time"]
                ELSE LET fields == InlineFields(t)
                     IN  [type |-> "object",
                          properties |->
                            [n \in {SplitFirst(fields[i].Tag) : i \in 1..Len(fields)} |->
                                LET last_i == CHOOSE i \in 1..Len(fields) :
                                        /\ SplitFirst(fields[i].Tag) = n
                                        /\ \A j \in (i + 1)..Len(fields) :
                                              SplitFirst(fields[j].Tag) # n
                                IN  getSwaggerType(models, fields[last_i].Type, depth - 1)]]
           [] t.kind = "slice" ->
                [type |-> "array", items |-> getSwaggerType(models, t.elem, depth - 1)]
           [] t.kind = "map" ->
                [type |-> "object",
                 additionalProperties |-> getSwaggerType(models, t.elem, depth - 1)]
           [] t.kind = "ptr" -> getSwaggerType(models, t.elem, depth - 1)
           [] OTHER -> [type |-> "string"]

\* properties[field.JSONName] = getSwaggerType(field.Type), field by field
PropertiesOf(models, fields) ==
    [n \in {fields[i].JSONName : i \in 1..Len(fields)} |->
        LET last_i == CHOOSE i \in 1..Len(fields) :
                /\ fields[i].JSONName = n
                /\ \A j \in (i + 1)..Len(fields) : fields[j].JSONName # n
        IN  getSwaggerType(models, fields[last_i].Type, MaxDepth)]

RECURSIVE RequiredOf(_)
RequiredOf(fields) ==
    IF fields = <<>> THEN <<>>
    ELSE (IF ~Head(fields).OmitEmpty THEN <<Head(fields).JSONName>> ELSE <<>>)
         \o RequiredOf(Tail(fields))

\* the fields a definition or a response body lists
DefinitionFields(modelInfo) ==
    SelectSeq(modelInfo.Fields, LAMBDA field : field.JSONName # S_Dash)

\* a request body that lists the identifier fields whatever isCreate says
RequestFieldsWithID(modelInfo, isCreate) ==
    SelectSeq(modelInfo.Fields, LAMBDA field : field.JSONName # S_Dash)

\* the fields a request body lists
RequestFields(modelInfo, isCreate) ==
    SelectSeq(modelInfo.Fields,
              LAMBDA field : ~(field.JSONName = S_Dash \/ (isCreate /\ field.IsID)))

getOperationName(isCreate) ==
    IF isCreate THEN <<"C","r","e","a","t","e">> ELSE <<"U","p","d","a","t","e">>

\* the fields GenerateRequestStruct writes a line for
RequestStructFields(modelInfo, isCreate) ==
    SelectSeq(modelInfo.Fields,
              LAMBDA field : ~(isCreate /\ field.IsID /\ field.Name = S_ID))

\* the generated struct text: its name and, line by line, the declared name
\* and the json name of each field (the Go type names are left out)
GenerateRequestStruct(modelInfo, isCreate) ==
    LET fields == RequestStructFields(modelInfo, isCreate)
    IN  [name  |-> TypeName(modelInfo.Type) \o getOperationName(isCreate)
                      \o <<"R","e","q","u","e","s","t">>,
         lines |-> [i \in DOMAIN fields |->
                      [Name |-> fields[i].Name, JSONName |-> fields[i].JSONName]]]

ObjectDefinition(models, fields) ==
    IF RequiredOf(fields) = <<>>
    THEN [type |-> "object", properties |-> PropertiesOf(models, fields)]
    ELSE [type |-> "object",
          properties |-> PropertiesOf(models, fields),
          required |-> RequiredOf(fields)]

generateModelDefinition(models, modelInfo) ==
    ObjectDefinition(models, DefinitionFields(modelInfo))

GenerateRequestBody(models, modelInfo, isCreate) ==
    ObjectDefinition(models, RequestFields(modelInfo, isCreate))

GenerateResponseBody(models, modelInfo) ==
    [type |-> "object",
     properties |-> PropertiesOf(models, DefinitionFields(modelInfo))]

GenerateModelDefinitions(models) ==
    [modelName \in DOMAIN models |-> generateModelDefinition(models, models[modelName])]

\* the path documents of one model: collection, item and relationship paths
CollectionDoc(models, modelInfo) ==
    [get  |-> [parameters |-> <<>>,
               responses |-> [array |-> TypeName(modelInfo.Type)]],
     post |-> [parameters |-> <<GenerateRequestBody(models, modelInfo, TRUE)>>,
               responses |-> GenerateResponseBody(models, modelInfo)]]
ItemDoc(models, modelInfo) ==
    [get    |-> [parameters |-> <<"id">>,
                 responses |-> GenerateResponseBody(models, modelInfo)],
     put    |-> [parameters |-> <<"id", GenerateRequestBody(models, modelInfo, FALSE)>>,
                 responses |-> GenerateResponseBody(models, modelInfo)],
     delete |-> [parameters |-> <<"id">>, responses |-> "Deleted"]]
RelatedDoc(modelInfo, fk) ==
    [get |-> [parameters |-> <<"id">>, responses |-> "List response"]]

\* a collection path built from the singular resource name
DocBasePathSingular(modelInfo) == S_api \o modelInfo.ResourceName

DocBasePath(modelInfo) == S_api \o modelInfo.PluralName
DocItemPath(modelInfo) == DocBasePath(modelInfo) \o S_braceId
DocRelatedPath(modelInfo, fk) ==
    DocBasePath(modelInfo) \o S_braceId \o S_slash \o toSnakeCase(fk.RelatedModel)

RECURSIVE RelatedDocs(_, _, _)
RelatedDocs(docs, modelInfo, i) ==
    IF i > Len(modelInfo.ForeignKeys) THEN docs
    ELSE LET fk == modelInfo.ForeignKeys[i]
         IN  IF fk.RelatedModel # NoString
             THEN RelatedDocs(MapPut(docs, DocRelatedPath(modelInfo, fk),
                                     RelatedDoc(modelInfo, fk)),
                              modelInfo, i + 1)
             ELSE RelatedDocs(docs, modelInfo, i + 1)

BuildPathsForModel(docs, models, modelInfo) ==
    RelatedDocs(
        MapPut(MapPut(docs, DocBasePath(modelInfo), CollectionDoc(models, modelInfo)),
               DocItemPath(modelInfo), ItemDoc(models, modelInfo)),
        modelInfo, 1)

RECURSIVE BuildPaths(_, _, _, _)
BuildPaths(docs, models, order, i) ==
    IF i > Len(order) THEN docs
    ELSE BuildPaths(BuildPathsForModel(docs, models, models[order[i]]),
                    models, order, i + 1)

(***************************************************************************)
(* The state machine.                                                      *)
(***************************************************************************)
NoResult == [op |-> "none"]

Init ==
    /\ Models = EmptyMap
    /\ RegisteredPaths = {}
    /\ Router = EmptyMap
    /\ db = [t \in StructTypes |-> {SeedRow(t)}]
    /\ paths = EmptyMap
    /\ last = NoResult
    /\ nRegs = 0
    /\ nPasses = 0
    /\ nReqs = 0
    /\ nBuilds = 0
    /\ inflight = {}

RegisterModel ==
    /\ nRegs < MaxRegs
    /\ \E model \in ModelInputs, resourceName \in ResourceNameArgs :
          LET res == RegisterModelResult(Models, model, resourceName)
          IN  /\ Models' = res.Models
              /\ last' = [op |-> "RegisterModel", err |-> res.err,
                          model |-> model, resourceName |-> resourceName]
    /\ nRegs' = nRegs + 1
    /\ UNCHANGED <<RegisteredPaths, Router, db, paths, nPasses, nReqs, nBuilds, inflight>>

GenerateAPI ==
    /\ nPasses < MaxPasses
    /\ \E order \in MapOrders(Models) :
          LET g == GenerateAll([Router |-> Router, RegisteredPaths |-> RegisteredPaths],
                               Models, order, 1)
          IN  /\ Router' = g.Router
              /\ RegisteredPaths' = g.RegisteredPaths
              /\ last' = [op |-> "GenerateAPI"]
    /\ nPasses' = nPasses + 1
    /\ UNCHANGED <<Models, db, paths, nRegs, nReqs, nBuilds, inflight>>

\* SwaggerGenerator.GenerateAllPaths
GenerateAllPaths == paths

\* a build that adds to the paths stored before
BuildPathsForAllModelsMerged ==
    /\ nBuilds < MaxBuilds
    /\ \E order \in MapOrders(Models) :
          paths' = BuildPaths(paths, Models, order, 1)
    /\ last' = [op |-> "BuildPathsForAllModels"]
    /\ nBuilds' = nBuilds + 1
    /\ UNCHANGED <<Models, RegisteredPaths, Router, db, nRegs, nPasses, nReqs, inflight>>

\* SwaggerGenerator.BuildPathsForAllModels, on the generator that shares g.Models
BuildPathsForAllModels ==
    /\ nBuilds < MaxBuilds
    /\ \E order \in MapOrders(Models) :
          paths' = BuildPaths(EmptyMap, Models, order, 1)
    /\ last' = [op |-> "BuildPathsForAllModels"]
    /\ nBuilds' = nBuilds + 1
    /\ UNCHANGED <<Models, RegisteredPaths, Router, db, nRegs, nPasses, nReqs, inflight>>

\* the identifiers a request path may carry
PathIds == {"", "x"} \cup {NumStr[n] : n \in 1..MaxId}

\* the handlers bound to the transport
BoundHandlers(kind) ==
    {h \in UNION {{Router[key][i] : i \in 1..Len(Router[key])} : key \in DOMAIN Router} :
        h.kind = kind}

\* a response step that also records the path it served in RegisteredPaths
RespondRecording(h, id, body, r) ==
    /\ db' = [db EXCEPT ![h.modelInfo.Type] = r.rows]
    /\ last' = [op |-> "request", kind |-> h.kind, modelInfo |-> h.modelInfo,
                fk |-> h.fk, id |-> id, reqBody |-> body, panic |-> r.panic,
                status |-> r.status, body |-> r.body, calls |-> r.calls]
    /\ nReqs' = nReqs + 1
    /\ RegisteredPaths' = RegisteredPaths \cup {ItemPath(h.modelInfo)}
    /\ UNCHANGED <<Models, Router, paths, nRegs, nPasses, nBuilds>>

\* the handler writes its response; what it did to the tables is kept
Respond(h, id, body, r) ==
    /\ db' = [db EXCEPT ![h.modelInfo.Type] = r.rows]
    /\ last' = [op |-> "request", kind |-> h.kind, modelInfo |-> h.modelInfo,
                fk |-> h.fk, id |-> id, reqBody |-> body, panic |-> r.panic,
                status |-> r.status, body |-> r.body, calls |-> r.calls]
    /\ nReqs' = nReqs + 1
    /\ UNCHANGED <<Models, RegisteredPaths, Router, paths, nRegs, nPasses, nBuilds>>

\* a request served from its first to its last step with no other in between
Served(h, id, body, r) ==
    /\ Respond(h, id, body, r)
    /\ inflight' = inflight

ListRequest ==
    /\ nReqs < MaxReqs
    /\ \E h \in BoundHandlers("list"), fail \in BOOLEAN :
          Served(h, "", BodyEmpty, listHandler(h.modelInfo, db[h.modelInfo.Type], fail))

GetRequest ==
    /\ nReqs < MaxReqs
    /\ \E h \in BoundHandlers("get"), id \in PathIds, fail \in BOOLEAN :
          Served(h, id, BodyEmpty, getHandler(h.modelInfo, db[h.modelInfo.Type], id, fail))

CreateRequest ==
    /\ nReqs < MaxReqs
    /\ \E h \in BoundHandlers("create"), body \in Bodies, fail \in BOOLEAN :
          /\ ~ShouldBindJSON(h.modelInfo.Type, NewInstance(h.modelInfo.Type), body).err
                => CanCreate(db[h.modelInfo.Type], h.modelInfo.Type,
                             ShouldBindJSON(h.modelInfo.Type,
                                            NewInstance(h.modelInfo.Type), body).instance)
          /\ Served(h, "", body,
                    createHandler(h.modelInfo, db[h.modelInfo.Type], body, fail))

UpdateRequest ==
    /\ nReqs < MaxReqs
    /\ \E h \in BoundHandlers("update"), id \in PathIds, body \in Bodies,
          fail1 \in BOOLEAN, fail2 \in BOOLEAN :
          Served(h, id, body,
                 updateHandler(h.modelInfo, db[h.modelInfo.Type], id, body, fail1, fail2))

DeleteRequest ==
    /\ nReqs < MaxReqs
    /\ \E h \in BoundHandlers("delete"), id \in PathIds,
          fail1 \in BOOLEAN, fail2 \in BOOLEAN :
          Served(h, id, BodyEmpty,
                 deleteHandler(h.modelInfo, db[h.modelInfo.Type], id, fail1, fail2))

RelatedRequest ==
    /\ nReqs < MaxReqs
    /\ \E h \in BoundHandlers("related"), id \in PathIds \cup ConditionIds,
          fail1 \in BOOLEAN, fail2 \in BOOLEAN :
          Served(h, id, BodyEmpty,
                 relatedHandler(h.modelInfo, h.fk, Models, db, id, fail1, fail2))

SetupNext ==
    \/ RegisterModel
    \/ GenerateAPI

ServeNext ==
    \/ ListRequest
    \/ GetRequest
    \/ CreateRequest
    \/ UpdateRequest
    \/ DeleteRequest
    \/ RelatedRequest

\* registration, route synthesis and serving
Next == SetupNext \/ ServeNext

Spec == Init /\ [][Next]_vars

\* registration, route synthesis and the Swagger generator
DocsNext == SetupNext \/ BuildPathsForAllModels

SpecDocs == Init /\ [][DocsNext]_vars

(***************************************************************************)
(* Serving with requests in flight together.  gin runs every request in    *)
(* its own goroutine; list, get and create make one persistence call,      *)
(* update, delete and the relationship handler make a lookup and then a    *)
(* second call, and the calls of other requests may fall between the two.  *)
(***************************************************************************)
MaxConcurrent == 2    \* requests in flight together

\* the registrations made before serving starts
ServedPairs == {<<ApigenUser, ApigenPost>>, <<BlogPost, BlogComment>>}

\* the state when the transport starts to serve: the pair registered under
\* the derived names, one synthesis pass made
ServeInit ==
    /\ Models \in {RegisterModelResult(
                       RegisterModelResult(EmptyMap, pair[1], <<>>).Models,
                       pair[2], <<>>).Models : pair \in ServedPairs}
    /\ \E order \in MapOrders(Models) :
          LET g == GenerateAll([Router |-> EmptyMap, RegisteredPaths |-> {}],
                               Models, order, 1)
          IN  /\ Router = g.Router
              /\ RegisteredPaths = g.RegisteredPaths
    /\ db = [t \in StructTypes |-> {SeedRow(t)}]
    /\ paths = EmptyMap
    /\ last = [op |-> "GenerateAPI"]
    /\ nRegs = 2
    /\ nPasses = 1
    /\ nReqs = 0
    /\ nBuilds = 0
    /\ inflight = {}

\* the part of relatedHandler after the parent was found
RelatedFound(modelInfo, fk, models, tables, parentCall, id, fail) ==
    IF fk.RelatedModel \notin DOMAIN models
    THEN Response(StatusInternalServerError, ErrorBody("Related model not registered"),
                  <<parentCall>>, tables[modelInfo.Type])
    ELSE RelatedQuery(modelInfo, fk, models[fk.RelatedModel], tables,
                      parentCall, id, fail)

\* the response of an update, delete or relationship request whose lookup
\* q did not find the record
EarlyResponse(kind, t, rows, id, q) ==
    IF id = ""
    THEN Response(StatusBadRequest, ErrorBody("ID is required"), <<>>, rows)
    ELSE IF kind # "related" /\ ~HasField(t, S_ID)
    THEN Panic(<<>>, rows)
    ELSE IF kind = "related" /\ q.res = "notfound"
    THEN Response(StatusNotFound, ErrorBody("Parent record not found"), <<q.call>>, rows)
    ELSE LookupFailure(q, rows)

\* the lookup of an update, delete or relationship request, accepted like
\* every request while no response has been written yet; the request
\* answers at once unless the record was found, and stays in flight if it was
LookupStep ==
    /\ nReqs < MaxReqs
    /\ Cardinality(inflight) < MaxConcurrent
    /\ \E kind \in {"update", "delete", "related"} :
       \E h \in BoundHandlers(kind),
          id \in (IF kind = "related" THEN PathIds \cup ConditionIds ELSE PathIds),
          body \in (IF kind = "update" THEN {BodyName, BodyTextsId} ELSE {BodyEmpty}),
          fail \in BOOLEAN :
          \E q \in {IF kind = "related"
                    THEN Logged(FirstByPK(db[h.modelInfo.Type], h.modelInfo.Type, id, fail),
                                "First", h.modelInfo.Type, NoString, id)
                    ELSE LookupByID(h.modelInfo, db[h.modelInfo.Type], id, fail)} :
              IF id # "" /\ HasField(h.modelInfo.Type, S_ID) /\ q.res = "found"
              THEN /\ inflight' = inflight \cup
                         {[kind |-> kind, h |-> h, id |-> id, body |-> body, q |-> q]}
                   /\ UNCHANGED <<Models, RegisteredPaths, Router, db, paths, last,
                                  nRegs, nPasses, nReqs, nBuilds>>
              ELSE /\ Respond(h, id, body, EarlyResponse(kind, h.modelInfo.Type,
                                                         db[h.modelInfo.Type], id, q))
                   /\ inflight' = inflight

\* the response a request in flight writes after its second persistence
\* call, made on the tables as they are by then
LateResponse(req, models, tables, fail) ==
    CASE req.kind = "update" ->
             UpdateFound(req.h.modelInfo, tables[req.h.modelInfo.Type], req.q,
                         req.body, fail)
      [] req.kind = "delete" ->
             DeleteFound(req.h.modelInfo, tables[req.h.modelInfo.Type], req.q, fail)
      [] req.kind = "related" ->
             RelatedFound(req.h.modelInfo, req.h.fk, models, tables, req.q.call,
                          req.id, fail)

FinishStep ==
    \E req \in inflight, fail \in BOOLEAN :
        /\ Respond(req.h, req.id, req.body, LateResponse(req, Models, db, fail))
        /\ inflight' = inflight \ {req}

ConcurrentNext ==
    \/ LookupStep
    \/ FinishStep
    \/ ListRequest
    \/ GetRequest
    \/ CreateRequest

SpecServe == ServeInit /\ [][ConcurrentNext]_vars

(***************************************************************************)
(* Properties of the handlers (checked under Spec).                        *)
(***************************************************************************)
\* positions of the calls of one kind in the call log of a request
Calls(l, op) == {i \in DOMAIN l.calls : l.calls[i].op = op}
\* what the lookup of the path id reported: "found", "notfound", "err",
\* or "none" when the handler made no lookup
LookupResult(l) ==
    IF l.calls # <<>> /\ l.calls[1].op \in {"First", "Where.First"}
    THEN l.calls[1].res
    ELSE "none"
\* this step serves a request of the kind
ServedNow(kind) == nReqs' = nReqs + 1 /\ last'.kind = kind
\* the most recent operation was a request of the kind
LastServed(kind) == last.op = "request" /\ last.kind = kind

\* C1: for every registered model and path id, an UPDATE whose lookup
\* reports no matching record responds 404, never invokes Save, and leaves
\* the stored records unchanged.
C1_UpdateNotFound ==
    [][ (ServedNow("update") /\ LookupResult(last') = "notfound")
          => /\ ~last'.panic
             /\ last'.status = StatusNotFound
             /\ Calls(last', "Save") = {}
             /\ db' = db ]_vars

C1_Witness ==
    /\ LastServed("update")
    /\ LookupResult(last) = "notfound"
    /\ last.status = StatusNotFound
    /\ last.reqBody = BodyTextsId

C3_DeleteAfterLookup ==
    [][ ServedNow("delete")
          => LET l == last'
                 t == last'.modelInfo.Type
             IN  /\ Calls(l, "Delete") # {} => LookupResult(l) = "found"
                 /\ LookupResult(l) = "notfound"
                       => l.status = StatusNotFound /\ db' = db
                 /\ LookupResult(l) = "err"
                       => l.status = StatusInternalServerError /\ db' = db
                 /\ LookupResult(l) # "none"
                       => \E fail \in BOOLEAN :
                             LET g == getHandler(l.modelInfo, db[t], l.id, fail)
                             IN  /\ g.calls = <<l.calls[1]>>
                                 /\ LookupResult(l) # "found"
                                       => g.status = l.status /\ g.body = l.body
                 /\ (\E i \in Calls(l, "Delete") : l.calls[i].res = "ok")
                       => /\ l.status = StatusNoContent
                          /\ l.body = NoBody
                          /\ \A r \in db'[t] : KeyText(t, r) # l.id ]_vars

C3_Witness ==
    /\ LastServed("delete")
    /\ LookupResult(last) = "found"
    /\ last.status = StatusNoContent
    /\ last.body = NoBody
    /\ db[last.modelInfo.Type] = {}

\* C4: CREATE with a body that fails deserialization responds 400 with the
\* underlying reason, never invokes Create and leaves the records
\* unchanged; a body that deserializes is persisted, with 201 when Create
\* succeeds and 500 when it fails.
C4_CreateBind ==
    [][ ServedNow("create")
          => LET l == last'
                 t == last'.modelInfo.Type
                 b == ShouldBindJSON(t, NewInstance(t), l.reqBody)
             IN  /\ ~l.panic
                 /\ b.err => /\ l.status = StatusBadRequest
                             /\ l.body = ErrorBody(b.reason)
                             /\ Calls(l, "Create") = {}
                             /\ db' = db
                 /\ ~b.err => /\ Calls(l, "Create") # {}
                              /\ l.status \in {StatusCreated, StatusInternalServerError}
                 /\ \A i \in Calls(l, "Create") :
                       IF l.calls[i].res = "ok"
                       THEN /\ l.status = StatusCreated
                            /\ l.body.kind = "instance"
                            /\ l.body.instance \in db'[t]
                       ELSE l.status = StatusInternalServerError /\ db' = db ]_vars

C4_Witness ==
    /\ LastServed("create")
    /\ last.reqBody.malformed
    /\ last.status = StatusBadRequest
    /\ last.calls = <<>>

\* C8: relationship targets are resolved at request time.  A synthesis pass
\* binds the relationship route of every foreign key that names a related
\* model, whether or not that model is registered; a request to such a
\* route whose target is absent from the registry gets a 500 once the
\* parent lookup has succeeded.
C8_TargetResolvedAtRequest ==
    [][ /\ nPasses' = nPasses + 1
           => \A k \in DOMAIN Models :
                 \A i \in DOMAIN Models[k].ForeignKeys :
                    LET fk == Models[k].ForeignKeys[i]
                    IN  fk.RelatedModel # NoString
                          => /\ <<"GET", RelatedPath(Models[k], fk)>> \in DOMAIN Router'
                             /\ RelatedPath(Models[k], fk) \in RegisteredPaths'
        /\ ( /\ ServedNow("related")
             /\ LookupResult(last') = "found"
             /\ last'.fk.RelatedModel \notin DOMAIN Models )
           => /\ ~last'.panic
              /\ last'.status = StatusInternalServerError
              /\ Len(last'.calls) = 1 ]_vars

C8_Witness ==
    /\ LastServed("related")
    /\ LookupResult(last) = "found"
    /\ last.fk.RelatedModel \notin DOMAIN Models
    /\ last.status = StatusInternalServerError
    /\ <<"GET", RelatedPath(last.modelInfo, last.fk)>> \in DOMAIN Router

(***************************************************************************)
(* Properties of registration, route synthesis and the schema generator    *)
(* (checked under SpecDocs).                                               *)
(***************************************************************************)
\* the handlers of one kind bound to a (method, path) pair
BoundAt(key, kind) ==
    IF key \in DOMAIN Router
    THEN {i \in DOMAIN Router[key] : Router[key][i].kind = kind}
    ELSE {}
\* the relationship paths of the registered models
RelatedPathsOf(models) ==
    UNION {{RelatedPath(models[k], models[k].ForeignKeys[i]) :
               i \in DOMAIN models[k].ForeignKeys} : k \in DOMAIN models}

S_user  == <<"u","s","e","r">>
S_post  == <<"p","o","s","t">>
S_users == <<"u","s","e","r","s">>
S_posts == <<"p","o","s","t","s">>
PostsUserRoute == <<"GET", S_api \o S_posts \o S_colonId \o S_slash \o S_user>>
UsersPostRoute == <<"GET", S_api \o S_users \o S_colonId \o S_slash \o S_post>>
UsersPostsRoute == <<"GET", S_api \o S_users \o S_colonId \o S_slash \o S_posts>>

RegisteredAs(user, post) ==
    /\ DOMAIN Models = {N_User, N_Post}
    /\ Models[N_User].Type = user /\ Models[N_User].ResourceName = S_user
    /\ Models[N_Post].Type = post /\ Models[N_Post].ResourceName = S_post
Synthesized(user, post) ==
    RegisteredAs(user, post) /\ last.op = "GenerateAPI"

\* C6, as stated: with the plain User and Post registered, synthesis binds
\* GET /api/posts/:id/user, the foreign key of its handler carries no
\* explicit relationship column, so the handler filters by the conventional
\* parent-resource ID column, and no GET /api/users/:id/post is bound.
C6_ConventionalFilter ==
    Synthesized(BlogUser, BlogPost)
      => /\ PostsUserRoute \in DOMAIN Router
         /\ \A i \in DOMAIN Router[PostsUserRoute] :
               LET h == Router[PostsUserRoute][i]
               IN  /\ h.fk.RelationshipID = NoString
                   /\ RelatedColumn(h.modelInfo, h.fk) = h.modelInfo.ResourceName \o S_ID
         /\ UsersPostRoute \notin DOMAIN Router

\* C6, amended: with the plain User and Post registered, synthesis binds
\* GET /api/posts/:id/user; its foreign key comes from the UserID field
\* (Rule B) and carries the explicit relationship column UserID, so the
\* handler filters by that column; no GET /api/users/:id/post is bound.
C6_ExplicitColumnFilter ==
    Synthesized(BlogUser, BlogPost)
      => /\ PostsUserRoute \in DOMAIN Router
         /\ \A i \in DOMAIN Router[PostsUserRoute] :
               LET h == Router[PostsUserRoute][i]
               IN  /\ h.kind = "related"
                   /\ h.fk.FieldName = G_UserID
                   /\ h.fk.RelationshipID = G_UserID
                   /\ RelatedColumn(h.modelInfo, h.fk) = G_UserID
         /\ UsersPostRoute \notin DOMAIN Router

C6_Witness ==
    /\ Synthesized(BlogUser, BlogPost)
    /\ PostsUserRoute \in DOMAIN Router
    /\ Router[PostsUserRoute][1].modelInfo.Type = BlogPost
    /\ RelatedColumn(Router[PostsUserRoute][1].modelInfo,
                     Router[PostsUserRoute][1].fk) = G_UserID

\* C7: for the README's models (User with Posts []Post, Post with UserID
\* and User), registering both and generating the API binds the
\* relationship endpoint GET /api/users/:id/posts.
C7_ReadmePostsOfUser ==
    Synthesized(ApigenUser, ApigenPost)
      => UsersPostsRoute \in DOMAIN Router

(***************************************************************************)
(* The schemas of the registered models.                                   *)
(***************************************************************************)
\* the positions of the identifier field ID in the fields of a ModelInfo
IDFields(modelInfo) ==
    {i \in DOMAIN modelInfo.Fields :
        modelInfo.Fields[i].Name = S_ID /\ modelInfo.Fields[i].IsID}
CreateProperties(modelInfo) ==
    DOMAIN GenerateRequestBody(Models, modelInfo, TRUE).properties
UpdateProperties(modelInfo) ==
    DOMAIN GenerateRequestBody(Models, modelInfo, FALSE).properties
ResponseProperties(modelInfo) ==
    DOMAIN GenerateResponseBody(Models, modelInfo).properties
DefinitionProperties(modelInfo) ==
    DOMAIN generateModelDefinition(Models, modelInfo).properties

NoExternalName(field) ==
    field.Tag = <<>> \/ field.Tag = S_Dash \/ SplitFirst(field.Tag) = <<>>

\* C10: a declared field whose tag is absent or "-", or that otherwise has
\* no usable external name, never appears in the ModelInfo's fields nor as
\* a property of a generated definition, request body or response body,
\* for every registered model and every tag value.
C10_UnnamedFieldsExcluded ==
    \A k \in DOMAIN Models :
        LET m == Models[k]
            declared == StructFields(m.Type)
        IN  \A i \in DOMAIN declared :
               NoExternalName(declared[i])
                 => /\ \A j \in DOMAIN m.Fields : m.Fields[j].Name # declared[i].Name
                    /\ SplitFirst(declared[i].Tag) \notin
                          (DefinitionProperties(m) \cup CreateProperties(m)
                             \cup UpdateProperties(m) \cup ResponseProperties(m))

(***************************************************************************)
(* The documented paths against the synthesized routes.                    *)
(***************************************************************************)
\* a documented path with every {id} parameter written as :id
RECURSIVE ColonParams(_)
ColonParams(p) ==
    IF p = <<>> THEN <<>>
    ELSE IF Len(p) >= 4 /\ SubSeq(p, 1, 4) = <<"{","i","d","}">>
    THEN <<":","i","d">> \o ColonParams(SubSeq(p, 5, Len(p)))
    ELSE <<Head(p)>> \o ColonParams(Tail(p))
\* the transport method a documented operation stands for
MethodOf(operation) ==
    CASE operation = "get" -> "GET"
      [] operation = "post" -> "POST"
      [] operation = "put" -> "PUT"
      [] operation = "delete" -> "DELETE"
      [] OTHER -> operation
\* the (method, path) entries of a path document
DocEntries(docs) ==
    UNION {{<<MethodOf(o), ColonParams(p)>> : o \in DOMAIN docs[p]} : p \in DOMAIN docs}
\* the routes one synthesis pass binds for a registry, on a fresh transport
SynthesizedRoutes(models, order) ==
    DOMAIN GenerateAll([Router |-> EmptyMap, RegisteredPaths |-> {}],
                       models, order, 1).Router

\* C11: for every registry, the (method, path) entries the path-document
\* builder documents are exactly the routes one synthesis pass binds for
\* that registry ({id} read as :id), relationship paths included, and both
\* use plural_name as the collection segment of each resource.
C11_DocsMirrorRoutes ==
    /\ \A o1 \in MapOrders(Models), o2 \in MapOrders(Models) :
          DocEntries(BuildPaths(EmptyMap, Models, o1, 1)) = SynthesizedRoutes(Models, o2)
    /\ \A k \in DOMAIN Models :
          /\ DocBasePath(Models[k]) = BasePath(Models[k])
          /\ BasePath(Models[k]) = S_api \o Models[k].PluralName
    /\ last.op = "BuildPathsForAllModels"
          => \A o \in MapOrders(Models) : DocEntries(paths) = SynthesizedRoutes(Models, o)

C11_Witness ==
    /\ last.op = "BuildPathsForAllModels"
    /\ nPasses = 1
    /\ DOMAIN Models = {N_User, N_Post}
    /\ DocEntries(paths) = DOMAIN Router
    /\ PostsUserRoute \in DocEntries(paths)

(***************************************************************************)
(* The registry.                                                           *)
(***************************************************************************)
\* this step is a RegisterModel call that returned no error
RegisteredNow == nRegs' = nRegs + 1 /\ ~last'.err

\* C12, as stated: after a model is registered, the registry lookup by its
\* resource_name and the lookup by the type's declared name both succeed
\* and return the same ModelInfo.
C12_BothKeysResolve ==
    \A k \in DOMAIN Models :
        /\ TypeName(Models[k].Type) \in DOMAIN Models
        /\ Models[k].ResourceName \in DOMAIN Models
        /\ Models[Models[k].ResourceName] = Models[TypeName(Models[k].Type)]

\* C12, amended: after a model is registered, the registry lookup by the
\* type's declared name succeeds and returns the ModelInfo just built; the
\* declared name is the only key the call adds, so a lookup by
\* resource_name finds nothing unless that text is itself a declared name.
C12_DeclaredNameIsTheKey ==
    [][ RegisteredNow
          => LET modelType == ModelType(last'.model)
                 name == TypeName(modelType)
             IN  /\ DOMAIN Models' = DOMAIN Models \cup {name}
                 /\ Models'[name].Type = modelType
                 /\ Models'[name].ResourceName =
                       ResolveResourceName(modelType, last'.resourceName)
                 /\ \A k \in DOMAIN Models' :
                       /\ TypeName(Models'[k].Type) = k
                       /\ k # name => Models'[k] = Models[k]
                       /\ Models'[k].ResourceName \in DOMAIN Models'
                             => \E k2 \in DOMAIN Models' :
                                   TypeName(Models'[k2].Type) = Models'[k].ResourceName ]_vars

C12_Witness ==
    /\ last.op = "RegisterModel"
    /\ ~last.err
    /\ N_User \in DOMAIN Models
    /\ Models[N_User].ResourceName = S_user
    /\ S_user \notin DOMAIN Models

\* C13, as stated: for every ModelInfo held in the registry, resource_name
\* equals to_snake_case of the type's declared name and plural_name equals
\* pluralize(resource_name), whatever arguments the registration was given.
C13_ResourceNameDerived ==
    \A k \in DOMAIN Models :
        /\ Models[k].ResourceName = toSnakeCase(TypeName(Models[k].Type))
        /\ Models[k].PluralName = pluralize(Models[k].ResourceName)

\* C13, amended: the ModelInfo a registration stores has the resourceName
\* argument as its resource_name when that argument is not empty, and
\* to_snake_case of the type's declared name only when it is empty; in
\* every entry plural_name equals pluralize(resource_name).  AnalyzeModel,
\* which takes no name argument, always derives the name.
C13_ResourceNameFromArgument ==
    [][ RegisteredNow
          => LET modelType == ModelType(last'.model)
                 info == Models'[TypeName(modelType)]
             IN  /\ last'.resourceName # <<>>
                       => info.ResourceName = last'.resourceName
                 /\ last'.resourceName = <<>>
                       => info.ResourceName = toSnakeCase(TypeName(modelType))
                 /\ AnalyzeModel(last'.model).info.ResourceName
                       = toSnakeCase(TypeName(modelType))
                 /\ \A k \in DOMAIN Models' :
                       Models'[k].PluralName = pluralize(Models'[k].ResourceName) ]_vars

C13_Witness ==
    /\ last.op = "RegisterModel"
    /\ ~last.err
    /\ last.resourceName = S_item
    /\ last.model = BlogUser
    /\ Models[N_User].ResourceName = S_item
    /\ Models[N_User].PluralName = <<"i","t","e","m","s">>

\* C14: in every registry reachable by registrations no two entries share
\* a resource_name, hence none share a plural_name or a collection path,
\* so one synthesis pass binds each CRUD (method, path) for exactly one
\* model.
C14_ResourceNameUnique ==
    /\ \A k1 \in DOMAIN Models, k2 \in DOMAIN Models :
          k1 # k2 => /\ Models[k1].ResourceName # Models[k2].ResourceName
                     /\ Models[k1].PluralName # Models[k2].PluralName
                     /\ BasePath(Models[k1]) # BasePath(Models[k2])
    /\ \A o \in MapOrders(Models) :
          LET router == GenerateAll([Router |-> EmptyMap, RegisteredPaths |-> {}],
                                    Models, o, 1).Router
          IN  \A key \in DOMAIN router : Len(router[key]) = 1

\* C15: registering an input that is not a structural record (a scalar, a
\* collection, or a reference to one of these) fails with the invalid-model
\* error and leaves the registry and the bound routes exactly as they were.
C15_InvalidModelRejected ==
    [][ nRegs' = nRegs + 1
          => LET modelType == ModelType(last'.model)
             IN  /\ last'.err <=> modelType.kind # "struct"
                 /\ AnalyzeModel(last'.model).err <=> modelType.kind # "struct"
                 /\ modelType.kind # "struct"
                       => /\ Models' = Models
                          /\ Router' = Router
                          /\ RegisteredPaths' = RegisteredPaths ]_vars

C15_Witness ==
    /\ last.op = "RegisterModel"
    /\ last.err
    /\ last.model \in {TUint, SliceOf(BlogUser), PtrTo(TUint)}
    /\ DOMAIN Models # {}
    /\ DOMAIN Router # {}

(***************************************************************************)
(* The responses of the handlers (checked under Spec).                     *)
(***************************************************************************)
\* the status an endpoint answers on success
SuccessStatus(kind) ==
    CASE kind = "create" -> StatusCreated
      [] kind = "delete" -> StatusNoContent
      [] OTHER -> StatusOK

\* C16: for every registered model, whatever its fields, and every request,
\* each handler produces exactly one response whose status is 400, 404, 500
\* or the endpoint's success status, with an error body on failure; no
\* handler aborts before responding.
C16_EveryRequestAnswered ==
    last.op = "request"
      => /\ ~last.panic
         /\ last.status \in {StatusBadRequest, StatusNotFound,
                             StatusInternalServerError, SuccessStatus(last.kind)}
         /\ last.status # SuccessStatus(last.kind) => last.body.kind = "error"

(***************************************************************************)
(* The state of the Swagger generator.                                     *)
(***************************************************************************)
\* this step is a BuildPathsForAllModels call
BuiltNow == nBuilds' = nBuilds + 1

\* C17, as stated: every Schema Generator operation, path-document building
\* included, changes neither the registry nor any state of the generator.
C17_GeneratorStateless ==
    [][ BuiltNow => Models' = Models /\ paths' = paths ]_vars

\* the registered models have pairwise different plural names
DistinctPlurals(models) ==
    \A k1 \in DOMAIN models, k2 \in DOMAIN models :
        k1 # k2 => models[k1].PluralName # models[k2].PluralName

\* C17, amended: no Schema Generator operation changes the registry, and
\* the document BuildPathsForAllModels builds is computed from the registry
\* alone, not from what was built before (it is the same for every map
\* iteration order when the plural names are distinct); but the call
\* stores that document in the generator, and GenerateAllPaths returns the
\* stored document, which no other operation refreshes.
C17_BuildStoresPaths ==
    [][ /\ BuiltNow
           => /\ Models' = Models
              /\ Router' = Router
              /\ \E o \in MapOrders(Models) :
                    GenerateAllPaths' = BuildPaths(EmptyMap, Models, o, 1)
              /\ DistinctPlurals(Models)
                    => \A o \in MapOrders(Models) :
                          GenerateAllPaths' = BuildPaths(EmptyMap, Models, o, 1)
        /\ ~BuiltNow => GenerateAllPaths' = GenerateAllPaths ]_vars

C17_Witness ==
    /\ nBuilds = 2
    /\ last.op = "RegisterModel"
    /\ ~last.err
    /\ DOMAIN GenerateAllPaths # {}
    /\ \A o \in MapOrders(Models) :
          GenerateAllPaths # BuildPaths(EmptyMap, Models, o, 1)

(***************************************************************************)
(* The naming engine on its own: a word is drawn, then toSnakeCase,        *)
(* toCamelCase on its output, or pluralize is applied to it.               *)
(***************************************************************************)
MaxWordLen == 3   \* length to which every word over Alphabet is drawn

Alphabet == {"U", "D", "a", "y", "s", "x", "z", "c", "h", "_", "1"}
\* declared names of the example programs, and names like them
NamedWords ==
    {N_User, N_Post, N_Profile, G_UserID, G_CreatedAt, S_user,
     <<"u","s","e","r","N","a","m","e">>, <<"u","s","e","r","_","i","d">>,
     <<"c","a","t","e","g","o","r","y">>, <<"c","h","u","r","c","h">>}
Words == NamedWords \cup UNION {[1..n -> Alphabet] : n \in 0..MaxWordLen}

NamesInit ==
    /\ Models = EmptyMap
    /\ RegisteredPaths = {}
    /\ Router = EmptyMap
    /\ db = [t \in StructTypes |-> {SeedRow(t)}]
    /\ paths = EmptyMap
    /\ last \in {[op |-> "word", word |-> w] : w \in Words}
    /\ nRegs = 0
    /\ nPasses = 0
    /\ nReqs = 0
    /\ nBuilds = 0
    /\ inflight = {}

NamesFrame ==
    UNCHANGED <<Models, RegisteredPaths, Router, db, paths, nRegs, nPasses, nReqs, nBuilds,
                inflight>>

SnakeCase ==
    /\ last.op = "word"
    /\ last' = [op |-> "toSnakeCase", word |-> last.word,
                result |-> toSnakeCase(last.word)]
    /\ NamesFrame

CamelCase ==
    /\ last.op = "toSnakeCase"
    /\ last' = [op |-> "toCamelCase", word |-> last.word,
                result |-> toCamelCase(last.result)]
    /\ NamesFrame

Pluralize ==
    /\ last.op = "word"
    /\ last' = [op |-> "pluralize", word |-> last.word,
                result |-> pluralize(last.word)]
    /\ NamesFrame

NamesNext == SnakeCase \/ CamelCase \/ Pluralize

SpecNames == NamesInit /\ [][NamesNext]_vars

Digits == {"0", "1", "2", "3", "4", "5", "6", "7", "8", "9"}
HasChar(w, chars) == \E i \in DOMAIN w : w[i] \in chars
\* the word with its first letter in lower case
LowerFirst(w) == IF w = <<>> THEN w ELSE <<ToLower(w[1])>> \o Tail(w)

\* C18, as stated: for every name x without digits,
\* to_camel_case(to_snake_case(x)) equals x.
C18_RoundTripRestores ==
    (last.op = "toCamelCase" /\ ~HasChar(last.word, Digits))
      => last.result = last.word

\* C18, amended: for every name x without underscores (digits or not),
\* to_camel_case(to_snake_case(x)) equals x with its first letter in lower
\* case; the round trip restores x exactly when x has no underscore and
\* does not begin with an upper-case letter.
C18_RoundTripLowersFirst ==
    last.op = "toCamelCase"
      => /\ ~HasChar(last.word, {"_"}) => last.result = LowerFirst(last.word)
         /\ last.result = last.word
               <=> /\ ~HasChar(last.word, {"_"})
                   /\ (last.word = <<>> \/ ~IsUpper(last.word[1]))

C18_Witness ==
    /\ last.op = "toCamelCase"
    /\ last.word = G_UserID
    /\ last.result = <<"u","s","e","r","I","D">>

\* the word ends in the letters given
EndsIn(w, letters) ==
    /\ Len(w) >= Len(letters)
    /\ \A i \in 1..Len(letters) : w[Len(w) - Len(letters) + i] = letters[i]

\* C19: pluralize is total and deterministic and applies its rules in this
\* precedence for every word, the empty word included: a word ending in
\* "y" loses the "y" and gains "ies"; otherwise a word ending in "s", "x",
\* "z", "ch" or "sh" gains "es"; otherwise the word gains "s".
C19_PluralizeRules ==
    last.op = "pluralize"
      => LET w == last.word
         IN  /\ last.result = pluralize(w)
             /\ IF EndsIn(w, <<"y">>)
                THEN last.result = SubSeq(w, 1, Len(w) - 1) \o <<"i","e","s">>
                ELSE IF \E e \in {<<"s">>, <<"x">>, <<"z">>, <<"c","h">>, <<"s","h">>} :
                           EndsIn(w, e)
                THEN last.result = w \o <<"e","s">>
                ELSE last.result = w \o <<"s">>

C19_Witness ==
    /\ last.op = "pluralize"
    /\ last.word = <<"c","a","t","e","g","o","r","y">>
    /\ last.result = <<"c","a","t","e","g","o","r","i","e","s">>

(***************************************************************************)
(* Foreign keys that share a relationship path.                            *)
(***************************************************************************)
\* the foreign keys of a model that map to the path, by position
KeysTo(modelInfo, path) ==
    {i \in DOMAIN modelInfo.ForeignKeys :
        /\ modelInfo.ForeignKeys[i].RelatedModel # NoString
        /\ RelatedPath(modelInfo, modelInfo.ForeignKeys[i]) = path}
\* the position of a field in the declaration of its struct
FieldIndex(t, name) ==
    CHOOSE i \in DOMAIN StructFields(t) : StructFields(t)[i].Name = name
\* the router holds, for the relationship route, one handler, built on the
\* foreign key declared first among those of its model that map to the path
FirstKeyBound(router, key) ==
    LET h == router[key][1]
        same == KeysTo(h.modelInfo, key[2])
    IN  /\ Len(router[key]) = 1
        /\ same # {}
        /\ \A i \in same :
              /\ h.fk = h.modelInfo.ForeignKeys[i]
                    <=> \A j \in same : i <= j
              /\ FieldIndex(h.modelInfo.Type, h.fk.FieldName)
                    <= FieldIndex(h.modelInfo.Type, h.modelInfo.ForeignKeys[i].FieldName)

\* C20: when several foreign keys of one model map to the same
\* relationship path, synthesis binds exactly one route for that path, its
\* handler uses the foreign key that comes first in field declaration
\* order, and each later one is skipped without replacing that handler.
C20_FirstForeignKeyWins ==
    [][ /\ \A key \in DOMAIN Router' :
              BoundAt(key, "related")' # {} => FirstKeyBound(Router', key)
        /\ \A key \in DOMAIN Router :
              BoundAt(key, "related") # {} => Router'[key] = Router[key]
        /\ nPasses' = nPasses + 1
              => \A k \in DOMAIN Models :
                    \A i \in DOMAIN Models[k].ForeignKeys :
                       Models[k].ForeignKeys[i].RelatedModel # NoString
                         => BoundAt(<<"GET", RelatedPath(Models[k],
                                        Models[k].ForeignKeys[i])>>, "related")' # {} ]_vars

C20_Witness ==
    /\ last.op = "GenerateAPI"
    /\ PostsUserRoute \in DOMAIN Router
    /\ Len(Router[PostsUserRoute]) = 1
    /\ Router[PostsUserRoute][1].modelInfo.Type = ApigenPost
    /\ Cardinality(KeysTo(Router[PostsUserRoute][1].modelInfo, PostsUserRoute[2])) = 2
    /\ Router[PostsUserRoute][1].fk.FieldName = G_UserID

(***************************************************************************)
(* A nested-record field together with its "...ID" field.                  *)
(***************************************************************************)
\* the struct declares a serialized nested-record field and a serialized
\* unsigned field named after it with the suffix "ID"
DeclaresPair(t) ==
    \E a, b \in DOMAIN StructFields(t) :
        LET fa == StructFields(t)[a]
            fb == StructFields(t)[b]
        IN  /\ ~SkipField(fa) /\ ~SkipField(fb)
            /\ fa.Type.kind = "struct" /\ ~isBasicType(fa.Type)
            /\ fb.Type.kind = "uint"
            /\ fb.Name = fa.Name \o S_ID
\* the positions, in ForeignKeys, of a nested-record entry and of the entry
\* of its "...ID" field
NestedPairs(modelInfo) ==
    {p \in (DOMAIN modelInfo.ForeignKeys) \X (DOMAIN modelInfo.ForeignKeys) :
        LET fa == modelInfo.ForeignKeys[p[1]]
            fb == modelInfo.ForeignKeys[p[2]]
        IN  /\ fa.RelationshipID = NoString /\ fa.RelatedField = S_ID
            /\ fb.RelationshipID = fa.FieldName \o S_ID}
\* the relationship handlers the router holds for the model on one of the keys
HandlersOn(modelInfo, fks) ==
    {h \in BoundHandlers("related") : h.modelInfo = modelInfo /\ h.fk \in fks}

\* C21 (as stated): a model that declares both a nested-record field and
\* the matching "...ID" field gets two relationship routes from synthesis,
\* one per ForeignKeyInfo entry.
C21_TwoRoutesPerPair ==
    last.op = "GenerateAPI"
      => \A k \in DOMAIN Models :
            \A p \in NestedPairs(Models[k]) :
               /\ HandlersOn(Models[k], {Models[k].ForeignKeys[p[1]]}) # {}
               /\ HandlersOn(Models[k], {Models[k].ForeignKeys[p[2]]}) # {}

\* C21 (amended): such a model keeps two ForeignKeyInfo entries, one with
\* and one without the relationship column; when both name the same related
\* model they map to one relationship path, and synthesis binds a single
\* route, with a single handler, for the two of them.
C21_PairSharesOneRoute ==
    last.op = "GenerateAPI"
      => \A k \in DOMAIN Models :
            LET m == Models[k]
            IN  /\ DeclaresPair(m.Type) => NestedPairs(m) # {}
                /\ \A p \in NestedPairs(m) :
                      LET fa == m.ForeignKeys[p[1]]
                          fb == m.ForeignKeys[p[2]]
                      IN  fa.RelatedModel = fb.RelatedModel
                            => /\ p[1] # p[2]
                               /\ fa # fb
                               /\ RelatedPath(m, fa) = RelatedPath(m, fb)
                               /\ <<"GET", RelatedPath(m, fa)>> \in DOMAIN Router
                               /\ Len(Router[<<"GET", RelatedPath(m, fa)>>]) = 1
                               /\ Cardinality(HandlersOn(m, {fa, fb})) <= 1

C21_Witness ==
    /\ last.op = "GenerateAPI"
    /\ N_Post \in DOMAIN Models
    /\ DeclaresPair(Models[N_Post].Type)
    /\ NestedPairs(Models[N_Post]) # {}
    /\ Cardinality(HandlersOn(Models[N_Post], {Models[N_Post].ForeignKeys[i] :
                                  i \in DOMAIN Models[N_Post].ForeignKeys})) = 1

(***************************************************************************)
(* Relationship inference.                                                 *)
(***************************************************************************)
\* the rule firings of a struct: (field position, rule)
Firings(t) ==
    LET fields == StructFields(t)
        serial == {i \in DOMAIN fields : fields[i].Tag # <<>> /\ fields[i].Tag # S_Dash}
    IN  {<<i, "A">> : i \in {j \in serial :
                                /\ fields[j].Type.kind = "struct"
                                /\ fields[j].Type # TTime}}
        \cup
        {<<i, "B">> : i \in {j \in serial :
                                /\ HasSuffix(fields[j].Name, S_ID)
                                /\ fields[j].Type.kind = "uint"}}
\* the n-th firing in field declaration order, rule A before rule B
FiringAt(t, n) ==
    CHOOSE f \in Firings(t) :
        Cardinality({g \in Firings(t) :
                        \/ g[1] < f[1]
                        \/ g[1] = f[1] /\ g[2] = "A" /\ f[2] = "B"}) = n - 1
\* the entry records the firing
RecordsFiring(fk, t, firing) ==
    LET field == StructFields(t)[firing[1]]
    IN  /\ fk.FieldName = field.Name
        /\ firing[2] = "A" => /\ fk.RelatedModel = field.Type.name
                              /\ fk.RelatedField = S_ID
                              /\ fk.RelationshipID = NoString
        /\ firing[2] = "B" => /\ fk.RelatedModel \o S_ID = field.Name
                              /\ fk.RelatedField = NoString
                              /\ fk.RelationshipID = field.Name
InferredFrom(fks, t) ==
    /\ Len(fks) = Cardinality(Firings(t))
    /\ \A n \in DOMAIN fks : RecordsFiring(fks[n], t, FiringAt(t, n))

\* C22: relationship inference applies Rule A and Rule B independently to
\* each serializable field: ForeignKeys holds one entry per rule firing, in
\* field declaration order, never deduplicated, with RelationshipID set to
\* the field's own name exactly on Rule B entries and absent on Rule A
\* entries; RegisterModel and AnalyzeModel infer the same entries.
C22_OneEntryPerFiring ==
    [][ RegisteredNow
          => LET t == ModelType(last'.model)
             IN  /\ InferredFrom(Models'[TypeName(t)].ForeignKeys, t)
                 /\ ~AnalyzeModel(last'.model).err
                 /\ InferredFrom(AnalyzeModel(last'.model).info.ForeignKeys, t) ]_vars

C22_Witness ==
    /\ last.op = "RegisterModel"
    /\ ~last.err
    /\ ModelType(last.model) = ApigenPost
    /\ Len(Models[N_Post].ForeignKeys) = 3
    /\ Firings(ApigenPost) = {<<1, "B">>, <<4, "B">>, <<5, "A">>}
    /\ Models[N_Post].ForeignKeys[2].RelationshipID = G_UserID
    /\ Models[N_Post].ForeignKeys[3].RelationshipID = NoString
    /\ Models[N_Post].ForeignKeys[2].RelatedModel = Models[N_Post].ForeignKeys[3].RelatedModel

(***************************************************************************)
(* The order of the steps of the relationship handler (checked under       *)
(* Spec).                                                                  *)
(***************************************************************************)
\* C23: the relationship handler first resolves the parent by primary-key
\* lookup (404 if absent, with nothing else done), and only then queries
\* the related collection: by the foreign key's RelationshipID column with
\* the path id parsed as an unsigned number when that column is present
\* (400 when the id is not numeric), and by the conventional
\* <parent resource>ID column with the raw path id when it is absent.
C23_ParentThenRelated ==
    [][ (ServedNow("related") /\ last'.id # "")
          => LET l == last'
                 explicit == l.fk.RelationshipID # NoString
                 resolved == /\ LookupResult(l) = "found"
                             /\ l.fk.RelatedModel \in DOMAIN Models
             IN  /\ ~l.panic
                 /\ l.calls # <<>>
                 /\ l.calls[1] = DBCall("First", l.modelInfo.Type, NoString, l.id,
                                        LookupResult(l))
                 /\ LookupResult(l) = "notfound"
                       => l.status = StatusNotFound /\ Len(l.calls) = 1
                 /\ Calls(l, "Where.Find") = IF resolved /\ (explicit => IsNumeric(l.id))
                                             THEN {2} ELSE {}
                 /\ (resolved /\ explicit /\ ~IsNumeric(l.id))
                       => l.status = StatusBadRequest /\ Len(l.calls) = 1
                 /\ \A i \in Calls(l, "Where.Find") :
                       /\ l.calls[i].table = Models[l.fk.RelatedModel].Type
                       /\ l.calls[i].value.text = l.id
                       /\ l.calls[i].value.parsed = explicit
                       /\ l.calls[i].column = IF explicit THEN l.fk.RelationshipID
                                              ELSE l.modelInfo.ResourceName \o S_ID
                 /\ db' = db ]_vars

\* a request served through the conventional column, with the raw path id
C23_Witness ==
    /\ LastServed("related")
    /\ last.modelInfo.Type = BlogComment
    /\ last.fk.RelationshipID = NoString
    /\ LookupResult(last) = "found"
    /\ last.id \in ConditionIds
    /\ Calls(last, "Where.Find") = {2}
    /\ last.calls[2].column = last.modelInfo.ResourceName \o S_ID
    /\ ~last.calls[2].value.parsed

\* a request whose parent was found and whose path id is not a number,
\* answered 400 on the explicit column
C23_InvalidIDReached ==
    /\ LastServed("related")
    /\ last.fk.RelationshipID # NoString
    /\ LookupResult(last) = "found"
    /\ ~IsNumeric(last.id)
    /\ last.status = StatusBadRequest
    /\ Len(last.calls) = 1

(***************************************************************************)
(* The registry while requests are served (checked under SpecServe).       *)
(***************************************************************************)
\* this step is a step of a request: its lookup, its second persistence
\* call, or the whole of a request that makes one call
RequestStep == nReqs' # nReqs \/ inflight' # inflight

\* C24: during serving, under any interleaving of the requests in flight,
\* the registry and RegisteredPaths are never written: they change only in
\* RegisterModel and in route synthesis.
C24_RegistryReadOnlyWhileServing ==
    [][ /\ RequestStep => (Models' = Models /\ RegisteredPaths' = RegisteredPaths)
        /\ Models' # Models => nRegs' = nRegs + 1
        /\ RegisteredPaths' # RegisteredPaths => nPasses' = nPasses + 1 ]_vars

\* a relationship request, which reads the registry, answered while an
\* update whose lookup was made before it is still in flight
C24_Witness ==
    /\ LastServed("related")
    /\ LookupResult(last) = "found"
    /\ last.fk.RelatedModel \in DOMAIN Models
    /\ Calls(last, "Where.Find") = {2}
    /\ \E req \in inflight : req.kind = "update"
    /\ Models # EmptyMap
    /\ RegisteredPaths # {}

(***************************************************************************)
(* Foreign keys without a related name (checked under SpecDocs).           *)
(***************************************************************************)
EndsInSlash(path) == path # <<>> /\ path[Len(path)] = "/"
\* the foreign keys Rule B infers from a field named exactly "ID"
UnnamedKeys(modelInfo) ==
    {i \in DOMAIN modelInfo.ForeignKeys :
        /\ modelInfo.ForeignKeys[i].FieldName = S_ID
        /\ modelInfo.ForeignKeys[i].RelatedModel = NoString}

\* C25: synthesis never binds a relationship route whose related segment is
\* empty: the foreign key Rule B infers from a field named exactly "ID" has
\* an empty related name and yields no route, neither in the route table
\* nor in the path documents.
C25_NoEmptyRelatedSegment ==
    /\ \A key \in DOMAIN Router :
          /\ ~EndsInSlash(key[2])
          /\ \A i \in DOMAIN Router[key] :
                Router[key][i].kind = "related"
                    => Router[key][i].fk.RelatedModel # NoString
    /\ \A p \in RegisteredPaths : ~EndsInSlash(p)
    /\ \A p \in DOMAIN paths : ~EndsInSlash(p)

\* a model with a uint field named ID went through a synthesis pass and a
\* build of the path documents
C25_Witness ==
    /\ last.op = "BuildPathsForAllModels"
    /\ \E name \in DOMAIN Models :
          /\ UnnamedKeys(Models[name]) # {}
          /\ <<"GET", ItemPath(Models[name])>> \in DOMAIN Router
          /\ DocItemPath(Models[name]) \in DOMAIN paths

(***************************************************************************)
(* Route synthesis and the orders it depends on (checked under SpecDocs).  *)
(***************************************************************************)
\* what a pass over a fresh route table binds: the routes, each with the
\* foreign keys of the relationship handlers bound to it
RouteKeys(models, order) ==
    LET router == GenerateAll([Router |-> EmptyMap, RegisteredPaths |-> {}],
                              models, order, 1).Router
    IN  [key \in DOMAIN router |->
            {router[key][i].fk :
                i \in {j \in DOMAIN router[key] : router[key][j].kind = "related"}}]

\* the registry had the model of this step been registered first and the
\* models registered before it afterwards
RegisteredFirst(models, model, resourceName) ==
    LET first == RegisterModelResult(EmptyMap, model, resourceName).Models
    IN  [k \in DOMAIN models \cup DOMAIN first |->
            IF k \in DOMAIN models THEN models[k] ELSE first[k]]

\* a pass binds the same routes with the same foreign keys whatever the
\* walk order over either registry
SameRoutes(models1, models2) ==
    \A o1 \in MapOrders(models1), o2 \in MapOrders(models2) :
        RouteKeys(models1, o1) = RouteKeys(models2, o2)

\* C26 (as stated): the routes synthesis binds and the foreign key of each
\* relationship handler are the same for every order of registration and
\* every walk order over the registry.
C26_RoutesIgnoreOrder ==
    [][ RegisteredNow
          => SameRoutes(Models', RegisteredFirst(Models, last'.model,
                                                 last'.resourceName)) ]_vars

\* C26, amended: the set of routes is the same for every walk order over a
\* given registry; when the declared type names are pairwise distinct the
\* registry is the same for either order of registration, and when the
\* plural names are pairwise distinct as well, so are the routes and the
\* foreign key of each relationship handler.
C26_RoutesIgnoreOrderOfDistinctModels ==
    [][ RegisteredNow
          => /\ \A o1 \in MapOrders(Models'), o2 \in MapOrders(Models') :
                   DOMAIN RouteKeys(Models', o1) = DOMAIN RouteKeys(Models', o2)
             /\ TypeName(ModelType(last'.model)) \notin DOMAIN Models
                   => /\ RegisteredFirst(Models, last'.model, last'.resourceName)
                            = Models'
                      /\ DistinctPlurals(Models')
                            => SameRoutes(Models', RegisteredFirst(Models, last'.model,
                                                  last'.resourceName)) ]_vars

\* two models with different declared names and different plural names,
\* each with a relationship route, are registered
C26_Witness ==
    /\ last.op = "RegisterModel"
    /\ ~last.err
    /\ Cardinality(DOMAIN Models) = 2
    /\ DistinctPlurals(Models)
    /\ \A k \in DOMAIN Models :
          \E i \in DOMAIN Models[k].ForeignKeys :
              Models[k].ForeignKeys[i].RelatedModel # NoString

(***************************************************************************)
(* Termination of the structural-kind mapping (checked under SpecDocs).    *)
(* getSwaggerType is unfolded to MaxDepth nested calls; a document that    *)
(* holds the overflow mark is one the code is still recursing for.         *)
(***************************************************************************)
RECURSIVE Overflows(_)
Overflows(doc) ==
    \/ "overflow" \in DOMAIN doc
    \/ /\ "properties" \in DOMAIN doc
       /\ \E n \in DOMAIN doc.properties : Overflows(doc.properties[n])
    \/ "items" \in DOMAIN doc /\ Overflows(doc.items)
    \/ "additionalProperties" \in DOMAIN doc /\ Overflows(doc.additionalProperties)

\* the schema documents of the registry and of the built path documents
SchemaDocs ==
    {generateModelDefinition(Models, Models[name]) : name \in DOMAIN Models}
        \cup {paths[p].post.responses :
                p \in {q \in DOMAIN paths : "post" \in DOMAIN paths[q]}}

\* C27: schema generation terminates for every registry and every field
\* type: the recursive structural-kind mapping reaches a result also when
\* an unregistered nested record refers to itself, directly or through a
\* reference, a sequence or a mapping.
C27_SchemaGenerationTerminates ==
    \A doc \in SchemaDocs : ~Overflows(doc)

\* the cause of every overflow: a field whose type is still unfolding after
\* MaxDepth nested calls is a nested record that is not registered
C27_OverflowOnlyUnregistered ==
    \A name \in DOMAIN Models :
        \A i \in DOMAIN Models[name].Fields :
            Overflows(getSwaggerType(Models, Models[name].Fields[i].Type, MaxDepth))
                => /\ Models[name].Fields[i].Type.kind = "struct"
                   /\ TypeName(Models[name].Fields[i].Type) \notin DOMAIN Models

(***************************************************************************)
(* The create request: schema document and generated struct (checked      *)
(* under SpecDocs).                                                        *)
(***************************************************************************)
\* the declared names of the model's fields that a create schema lists
CreateSchemaNames(modelInfo) ==
    {modelInfo.Fields[i].Name :
        i \in {j \in DOMAIN modelInfo.Fields :
                 modelInfo.Fields[j].JSONName
                     \in DOMAIN GenerateRequestBody(Models, modelInfo, TRUE).properties
                 /\ \E k \in DOMAIN RequestFields(modelInfo, TRUE) :
                       RequestFields(modelInfo, TRUE)[k] = modelInfo.Fields[j]}}
\* the declared names of the fields the generated create struct has
CreateStructNames(modelInfo) ==
    {GenerateRequestStruct(modelInfo, TRUE).lines[i].Name :
        i \in DOMAIN GenerateRequestStruct(modelInfo, TRUE).lines}
AllFieldNames(modelInfo) ==
    {modelInfo.Fields[i].Name : i \in DOMAIN modelInfo.Fields}

\* C28: for every model the create request schema and the generated create
\* request struct contain the same set of fields: both leave out only the
\* field named ID and keep every other field, foreign-key fields such as
\* UserID included.
C28_CreateSchemaMatchesStruct ==
    \A name \in DOMAIN Models :
        /\ CreateSchemaNames(Models[name]) = CreateStructNames(Models[name])
        /\ CreateStructNames(Models[name]) = AllFieldNames(Models[name]) \ {S_ID}

\* the half of C28 that holds: the create struct leaves out the field named
\* ID and nothing else
C28_StructLeavesOutOnlyID ==
    \A name \in DOMAIN Models :
        CreateStructNames(Models[name]) = AllFieldNames(Models[name]) \ {S_ID}

\* the create schema of the Post of the examples, built into the path
\* documents, lists the title but not the user id
C28_UserIDLeftOut ==
    /\ last.op = "BuildPathsForAllModels"
    /\ N_Post \in DOMAIN Models
    /\ G_UserID \in CreateStructNames(Models[N_Post])
    /\ G_UserID \notin CreateSchemaNames(Models[N_Post])
    /\ G_Title \in CreateSchemaNames(Models[N_Post])

====
